---- MODULE Spec2Model ----
(***************************************************************************)
(* A model of the sketches-go stores and sketches:                         *)
(*   - DenseStore, CollapsingLowestDenseStore, CollapsingHighestDenseStore *)
(*     (package store), as records holding the Go struct fields;           *)
(*   - BufferedPaginatedStore (buffer of indexes + pages of counts);       *)
(*   - DDSketch over two stores and a zero count;                          *)
(*   - GKArray.                                                            *)
(* Go slices are sequences (1-based here, 0-based in the source); counts   *)
(* are float64 in the source and naturals here (only integral counts are   *)
(* drawn); a Go runtime panic is recorded in the field "panicked".         *)
(***************************************************************************)
EXTENDS Integers, Sequences, FiniteSets, TLC

----------------------------------------------------------------------------
(* Bounds of the model *)

\* number of mutating operations in one behaviour of the store specification
MaxOps == 3

\* indexes drawn by Add/AddBin: around zero, and beyond one growthBuffer away
IndexSet == {-130, -1, 0, 131}

\* counts drawn by AddBin/AddWithCount
CountSet == {0, 1, 2}
OtherCountSet == {2}

----------------------------------------------------------------------------
(* Go helpers *)

min(x, y) == IF x < y THEN x ELSE y

max(x, y) == IF x > y THEN x ELSE y

\* the slice whose elements are those of the function f on 1..n, as a tuple
Slice(f) == SubSeq(f, 1, Len(f))

\* make([]float64, n)
Zeros(n) == Slice([i \in 1..n |-> 0])

\* copy(dst[off:], src), for 0 <= off <= len(dst); overlapping copies behave
\* like memmove, which this is when src is taken from the old dst
CopyAt(dst, off, src) ==
    Slice([i \in 1..Len(dst) |->
              IF i > off /\ i - off <= Len(src) THEN src[i - off] ELSE dst[i]])

\* s[from:], 0-based from
SliceFrom(seq, from) == SubSeq(seq, from + 1, Len(seq))

\* sum of f[i] for i in the finite set S
RECURSIVE SumOver(_, _)
SumOver(f, S) ==
    IF S = {} THEN 0
    ELSE LET i == CHOOSE x \in S : TRUE
         IN f[i] + SumOver(f, S \ {i})

\* the positions from..to (1-based) of a slice of counts that hold a non-zero
\* count: the loops over counts are computed from these, the zero counts
\* adding nothing to a sum
NonZero(bins, from, to) == {i \in from..to : bins[i] # 0}

\* a faulty variant: the counts of the range are dropped
SumRange_dropped(bins, minIndex, from, to) == 0

\* sum of bins[i - minIndex] for i in from..to (0-based slice index)
SumRange(bins, minIndex, from, to) ==
    SumOver(bins, NonZero(bins, from - minIndex + 1, to - minIndex + 1))

----------------------------------------------------------------------------
(* DenseStore *)

growthBuffer == 128

NewDenseStore ==
    [kind |-> "dense", bins |-> <<>>, count |-> 0, minIndex |-> 0,
     maxIndex |-> 0, maxNumBins |-> 0, panicked |-> FALSE]

NewCollapsingLowestDenseStore(maxNumBins) ==
    [kind |-> "lowest", bins |-> <<>>, count |-> 0, minIndex |-> 0,
     maxIndex |-> 0, maxNumBins |-> maxNumBins, panicked |-> FALSE]

NewCollapsingHighestDenseStore(maxNumBins) ==
    [kind |-> "highest", bins |-> <<>>, count |-> 0, minIndex |-> 0,
     maxIndex |-> 0, maxNumBins |-> maxNumBins, panicked |-> FALSE]

\* the Go runtime panics: the operation does not complete
Panic(s) == [s EXCEPT !.panicked = TRUE]

\* s.bins[idx] += count; s.count += count  (idx 0-based)
AddAt(s, idx, count) ==
    IF idx < 0 \/ idx >= Len(s.bins) THEN Panic(s)
    ELSE [s EXCEPT !.bins[idx + 1] = @ + count, !.count = @ + count]

DenseStore_growLeft(s, index) ==
    IF s.minIndex < index THEN s
    ELSE LET minIndex == index - growthBuffer
             tmpBins == Zeros(s.maxIndex - minIndex + 1)
         IN [s EXCEPT !.bins = CopyAt(tmpBins, s.minIndex - minIndex, s.bins),
                      !.minIndex = minIndex]

DenseStore_growRight(s, index) ==
    IF s.maxIndex > index THEN s
    ELSE LET maxIndex == index + growthBuffer
             tmpBins == Zeros(maxIndex - s.minIndex + 1)
         IN [s EXCEPT !.bins = CopyAt(tmpBins, 0, s.bins),
                      !.maxIndex = maxIndex]

DenseStore_addWithCount(s, index, count) ==
    LET s1 == IF s.count = 0
              THEN [s EXCEPT !.bins = Zeros(growthBuffer),
                             !.maxIndex = index,
                             !.minIndex = index - growthBuffer + 1]
              ELSE s
        s2 == IF index < s1.minIndex THEN DenseStore_growLeft(s1, index)
              ELSE IF index > s1.maxIndex THEN DenseStore_growRight(s1, index)
              ELSE s1
    IN AddAt(s2, index - s2.minIndex, count)

DenseStore_Add(s, index) == DenseStore_addWithCount(s, index, 1)

DenseStore_AddBin(s, bin) ==
    IF bin.count = 0 THEN s
    ELSE DenseStore_addWithCount(s, bin.index, bin.count)

DenseStore_IsEmpty(s) == s.count = 0

DenseStore_TotalCount(s) == s.count

\* MinIndex() (int, error): err is TRUE when the store is empty
FirstPositive(bins, i) ==
    LET P == {j \in i..Len(bins) : bins[j] > 0}
    IN IF P = {} THEN 0 ELSE CHOOSE j \in P : \A k \in P : j <= k

DenseStore_MinIndex(s) ==
    IF s.count = 0 THEN [err |-> TRUE, v |-> 0]
    ELSE LET i == FirstPositive(s.bins, 1)
         IN IF i > 0 THEN [err |-> FALSE, v |-> (i - 1) + s.minIndex]
            ELSE [err |-> FALSE, v |-> s.maxIndex]

\* the loop of MaxIndex: for i := s.maxIndex; i >= s.minIndex; i--
LastPositive(s, i, dflt) ==
    LET P == {j \in s.minIndex..i : s.bins[j - s.minIndex + 1] > 0}
    IN IF P = {} THEN dflt ELSE CHOOSE j \in P : \A k \in P : j >= k

\* a faulty variant: the upper bound of the array, not the last positive count
DenseStore_MaxIndex_arrayBound(s) ==
    IF s.count = 0 THEN [err |-> TRUE, v |-> 0]
    ELSE [err |-> FALSE, v |-> s.maxIndex]

DenseStore_MaxIndex(s) ==
    IF s.count = 0 THEN [err |-> TRUE, v |-> 0]
    ELSE [err |-> FALSE, v |-> LastPositive(s, s.maxIndex, s.minIndex)]

\* KeyAtRank(rank) for rank = rankNum / rankDen (rankDen > 0):
\* n > rank is n * rankDen > rankNum
\* n after the iterations 0..i-1 of the loop (1-based position i)
CumulCount(bins, nz, i) == SumOver(bins, {j \in nz : j <= i})

\* a faulty variant: the loop stops on n >= rank
DenseStore_KeyAtRank_notStrict(s, rankNum, rankDen) ==
    LET nz == NonZero(s.bins, 1, Len(s.bins))
        P == {i \in nz \cup (1..min(1, Len(s.bins))) :
                 CumulCount(s.bins, nz, i) * rankDen >= rankNum}
    IN IF P = {} THEN s.maxIndex
       ELSE (CHOOSE i \in P : \A k \in P : i <= k) - 1 + s.minIndex

\* n changes at the positions of non-zero count only: the first position where
\* n > rank is the first one or one of these
DenseStore_KeyAtRank(s, rankNum, rankDen) ==
    LET nz == NonZero(s.bins, 1, Len(s.bins))
        P == {i \in nz \cup (1..min(1, Len(s.bins))) :
                 CumulCount(s.bins, nz, i) * rankDen > rankNum}
    IN IF P = {} THEN s.maxIndex
       ELSE (CHOOSE i \in P : \A k \in P : i <= k) - 1 + s.minIndex

\* Bins(): the bins the producer goroutine sends, in order
RECURSIVE BinsLoop(_, _)
BinsLoop(s, P) ==
    IF P = {} THEN <<>>
    ELSE LET idx == CHOOSE j \in P : \A k \in P : j <= k
         IN <<[index |-> idx, count |-> s.bins[idx - s.minIndex + 1]]>>
            \o BinsLoop(s, P \ {idx})

DenseStore_Bins(s) ==
    BinsLoop(s, {idx \in s.minIndex..s.maxIndex : s.bins[idx - s.minIndex + 1] > 0})

DenseStore_copy(s, o) ==
    [s EXCEPT !.bins = o.bins, !.minIndex = o.minIndex,
              !.maxIndex = o.maxIndex, !.count = o.count]

----------------------------------------------------------------------------
(* CollapsingLowestDenseStore *)

CollapsingLowest_growLeft(s, index) ==
    IF s.minIndex < index \/ Len(s.bins) >= s.maxNumBins THEN s
    ELSE LET minIndex ==
                 IF s.maxIndex >= index + s.maxNumBins
                 THEN s.maxIndex - s.maxNumBins + 1
                 ELSE max(index - growthBuffer, s.maxIndex - s.maxNumBins + 1)
             tmpBins == Zeros(s.maxIndex - minIndex + 1)
         IN [s EXCEPT !.bins = CopyAt(tmpBins, s.minIndex - minIndex, s.bins),
                      !.minIndex = minIndex]

CollapsingLowest_growRight(s, index) ==
    IF s.maxIndex > index THEN s
    ELSE IF index >= s.maxIndex + s.maxNumBins
    THEN [s EXCEPT !.bins = [Zeros(s.maxNumBins) EXCEPT ![1] = s.count],
                   !.maxIndex = index,
                   !.minIndex = index - s.maxNumBins + 1]
    ELSE IF index >= s.minIndex + s.maxNumBins
    THEN LET minIndex == index - s.maxNumBins + 1
             n == SumRange(s.bins, s.minIndex, s.minIndex,
                           min(minIndex - 1, s.maxIndex))
             shift == minIndex - s.minIndex
             moved ==
                 IF Len(s.bins) < s.maxNumBins
                 THEN CopyAt(Zeros(s.maxNumBins), 0, SliceFrom(s.bins, shift))
                 ELSE LET c == CopyAt(s.bins, 0, SliceFrom(s.bins, shift))
                      IN Slice([i \in 1..Len(c) |->
                                   IF i - 1 >= s.maxIndex - minIndex + 1
                                      /\ i - 1 < s.maxNumBins
                                   THEN 0 ELSE c[i]])
         IN IF shift > Len(s.bins) THEN Panic(s)
            ELSE [s EXCEPT !.bins = [moved EXCEPT ![1] = @ + n],
                           !.maxIndex = index,
                           !.minIndex = minIndex]
    ELSE LET maxIndex == min(index + growthBuffer, s.minIndex + s.maxNumBins - 1)
             tmpBins == Zeros(maxIndex - s.minIndex + 1)
         IN [s EXCEPT !.bins = CopyAt(tmpBins, 0, s.bins),
                      !.maxIndex = maxIndex]

CollapsingLowest_Add(s, index) ==
    LET s1 == IF s.count = 0
              THEN LET l == min(growthBuffer, s.maxNumBins)
                   IN [s EXCEPT !.bins = Zeros(l),
                                !.maxIndex = index,
                                !.minIndex = index - l + 1]
              ELSE s
        s2 == IF index < s1.minIndex THEN CollapsingLowest_growLeft(s1, index)
              ELSE IF index > s1.maxIndex THEN CollapsingLowest_growRight(s1, index)
              ELSE s1
        idx == IF index < s2.minIndex THEN 0 ELSE index - s2.minIndex
    IN IF s2.panicked THEN s2 ELSE AddAt(s2, idx, 1)

CollapsingLowest_AddBin(s, bin) ==
    IF bin.count = 0 THEN s
    ELSE LET s2 == IF bin.index < s.minIndex
                   THEN CollapsingLowest_growLeft(s, bin.index)
                   ELSE IF bin.index > s.maxIndex
                   THEN CollapsingLowest_growRight(s, bin.index)
                   ELSE s
             idx == max(0, bin.index - s2.minIndex)
         IN IF s2.panicked THEN s2 ELSE AddAt(s2, idx, bin.count)

CollapsingLowest_copy(s, o) ==
    [s EXCEPT !.bins = o.bins, !.minIndex = o.minIndex,
              !.maxIndex = o.maxIndex, !.count = o.count,
              !.maxNumBins = o.maxNumBins]

\* for bin := range other.Bins() { s.AddBin(bin) }
RECURSIVE CollapsingLowest_AddBins(_, _)
CollapsingLowest_AddBins(s, bins) ==
    IF bins = <<>> \/ s.panicked THEN s
    ELSE CollapsingLowest_AddBins(CollapsingLowest_AddBin(s, Head(bins)), Tail(bins))

\* s.bins[i-s.minIndex] += o.bins[i-o.minIndex] for i in from..to
AddRange(s, o, from, to) ==
    [s EXCEPT !.bins =
        Slice([j \in 1..Len(s.bins) |->
                  LET i == (j - 1) + s.minIndex
                  IN IF i >= from /\ i <= to
                     THEN s.bins[j] + o.bins[i - o.minIndex + 1]
                     ELSE s.bins[j]])]

----------------------------------------------------------------------------
(* CollapsingHighestDenseStore *)

CollapsingHighest_growLeft(s, index) ==
    IF s.minIndex < index THEN s
    ELSE IF index <= s.minIndex - s.maxNumBins
    THEN [s EXCEPT !.bins = [Zeros(s.maxNumBins) EXCEPT ![s.maxNumBins] = s.count],
                   !.minIndex = index,
                   !.maxIndex = index + s.maxNumBins - 1]
    ELSE IF index <= s.maxIndex - s.maxNumBins
    THEN LET maxIndex == index + s.maxNumBins - 1
             n == SumRange(s.bins, s.minIndex, max(s.minIndex, maxIndex + 1),
                           s.maxIndex)
             shift == s.minIndex - index
             moved ==
                 IF Len(s.bins) < s.maxNumBins
                 THEN CopyAt(Zeros(s.maxNumBins), shift, s.bins)
                 ELSE LET c == CopyAt(s.bins, shift, s.bins)
                      IN Slice([i \in 1..Len(c) |->
                                   IF i - 1 < shift THEN 0 ELSE c[i]])
         IN IF shift > Len(moved) THEN Panic(s)
            ELSE [s EXCEPT !.bins = [moved EXCEPT ![s.maxNumBins] = @ + n],
                           !.minIndex = index,
                           !.maxIndex = maxIndex]
    ELSE LET tmpBins == Zeros(s.maxIndex - index + 1)
         IN [s EXCEPT !.bins = CopyAt(tmpBins, s.minIndex - index, s.bins),
                      !.minIndex = index]

CollapsingHighest_growRight(s, index) ==
    IF s.maxIndex > index \/ Len(s.bins) >= s.maxNumBins THEN s
    ELSE LET maxIndex ==
                 IF index >= s.minIndex + s.maxNumBins
                 THEN s.minIndex + s.maxNumBins - 1
                 ELSE min(index + growthBuffer, s.minIndex + s.maxNumBins - 1)
             tmpBins == Zeros(maxIndex - s.minIndex + 1)
         IN [s EXCEPT !.bins = CopyAt(tmpBins, 0, s.bins),
                      !.maxIndex = maxIndex]

CollapsingHighest_Add(s, index) ==
    LET s1 == IF s.count = 0
              THEN LET l == min(growthBuffer, s.maxNumBins)
                   IN [s EXCEPT !.bins = Zeros(l),
                                !.minIndex = index,
                                !.maxIndex = index + l - 1]
              ELSE s
        s2 == IF index < s1.minIndex THEN CollapsingHighest_growLeft(s1, index)
              ELSE IF index > s1.maxIndex THEN CollapsingHighest_growRight(s1, index)
              ELSE s1
        idx == IF index > s2.maxIndex THEN Len(s2.bins) - 1
               ELSE index - s2.minIndex
    IN IF s2.panicked THEN s2 ELSE AddAt(s2, idx, 1)

CollapsingHighest_AddBin(s, bin) ==
    IF bin.count = 0 THEN s
    ELSE LET s2 == IF bin.index < s.minIndex
                   THEN CollapsingHighest_growLeft(s, bin.index)
                   ELSE IF bin.index > s.maxIndex
                   THEN CollapsingHighest_growRight(s, bin.index)
                   ELSE s
             idx == IF bin.index > s2.maxIndex THEN s2.maxIndex - s2.minIndex
                    ELSE bin.index - s2.minIndex
         IN IF s2.panicked THEN s2 ELSE AddAt(s2, idx, bin.count)

CollapsingHighest_copy(s, o) ==
    [s EXCEPT !.bins = o.bins, !.minIndex = o.minIndex,
              !.maxIndex = o.maxIndex, !.count = o.count,
              !.maxNumBins = o.maxNumBins]

RECURSIVE CollapsingHighest_AddBins(_, _)
CollapsingHighest_AddBins(s, bins) ==
    IF bins = <<>> \/ s.panicked THEN s
    ELSE CollapsingHighest_AddBins(CollapsingHighest_AddBin(s, Head(bins)), Tail(bins))

----------------------------------------------------------------------------
(* DenseStore.MergeWith *)

RECURSIVE DenseStore_AddBins(_, _)
DenseStore_AddBins(s, bins) ==
    IF bins = <<>> \/ s.panicked THEN s
    ELSE DenseStore_AddBins(DenseStore_AddBin(s, Head(bins)), Tail(bins))

----------------------------------------------------------------------------
(* BufferedPaginatedStore (ddsketch/store/buffered_paginated.go)            *)
(* A page is [nil, c]: nil is TRUE for a nil slice; c holds the counts, of  *)
(* length 0 (nil, or allocated and emptied by Clear) or pageLen.            *)
(* cap(s.pages) is not modelled: the slots between len and cap hold nil.    *)

\* the sentinel of minPageIndex when the pages are unused; it is only compared
\* for equality and with page indexes, so the largest 32-bit int stands for
\* the largest int of the build
maxInt == 2147483647

defaultPageLenLog2 == 5

\* the sizes in bits of a count and of a buffered index (int on a 64-bit build)
float64size == 64

intSize == 64

bufferEntrySize == intSize

NilPage == [nil |-> TRUE, c |-> <<>>]

NewBufferedPaginatedStore ==
    [kind |-> "bp", buffer |-> <<>>, bufferCap |-> 0,
     bufferCompactionTriggerLen |-> 2 * (2 ^ defaultPageLenLog2),
     pages |-> <<>>, minPageIndex |-> maxInt,
     pageLenLog2 |-> defaultPageLenLog2,
     pageLenMask |-> (2 ^ defaultPageLenLog2) - 1,
     emptyPageMinPos |-> 0, panicked |-> FALSE]

\* index >> s.pageLenLog2 (arithmetic shift: the floor of the division)
BP_pageIndex(s, index) == index \div (2 ^ s.pageLenLog2)

\* index & s.pageLenMask
BP_lineIndex(s, index) == index % (s.pageLenMask + 1)

BP_index(s, pageIndex, lineIndex) == pageIndex * (2 ^ s.pageLenLog2) + lineIndex

\* pageIndex >= s.minPageIndex && pageIndex < s.minPageIndex+len(s.pages)
BP_inPages(s, pageIndex) ==
    /\ pageIndex >= s.minPageIndex
    /\ pageIndex < s.minPageIndex + Len(s.pages)

\* makePage(i), i 0-based
BP_makePage(s, i) ==
    LET pageLen == 2 ^ s.pageLenLog2
        full == [nil |-> FALSE, c |-> Zeros(pageLen)]
        E == {e \in (s.emptyPageMinPos + 1)..Len(s.pages) :
                ~s.pages[e].nil /\ Len(s.pages[e].c) = 0}
    IN IF Len(s.pages[i + 1].c) > 0 THEN s
       ELSE IF ~s.pages[i + 1].nil THEN [s EXCEPT !.pages[i + 1] = full]
       ELSE IF E # {}
       THEN LET e == CHOOSE x \in E : \A y \in E : x <= y
            IN [s EXCEPT !.pages = [[s.pages EXCEPT ![i + 1] = full]
                                        EXCEPT ![e] = NilPage],
                         !.emptyPageMinPos = e]
       ELSE [s EXCEPT !.pages[i + 1] = full,
                      !.emptyPageMinPos = max(s.emptyPageMinPos, Len(s.pages))]

Nils(n) == Slice([i \in 1..n |-> NilPage])

\* page(pageIndex, ensureExists): the store after the call and the position
\* i (0-based) in s.pages of the page returned, or -1 when nil is returned
BP_page(s, pageIndex, ensureExists) ==
    IF BP_inPages(s, pageIndex)
    THEN LET i == pageIndex - s.minPageIndex
         IN [s |-> IF ensureExists THEN BP_makePage(s, i) ELSE s, i |-> i]
    ELSE IF ~ensureExists THEN [s |-> s, i |-> -1]
    ELSE LET s1 ==
                 IF pageIndex < s.minPageIndex
                 THEN IF s.minPageIndex = maxInt
                      THEN LET pages == IF Len(s.pages) = 0 THEN Nils(1)
                                        ELSE s.pages
                           IN [s EXCEPT !.pages = pages,
                                        !.minPageIndex =
                                            pageIndex - (Len(pages) \div 2)]
                      ELSE LET addedPagesLen == s.minPageIndex - pageIndex
                           IN [s EXCEPT !.pages = Nils(addedPagesLen) \o s.pages,
                                        !.minPageIndex = @ - addedPagesLen,
                                        !.emptyPageMinPos = @ + addedPagesLen]
                 ELSE LET requiredPagesLen == pageIndex - s.minPageIndex + 1
                      IN [s EXCEPT !.pages =
                              s.pages \o Nils(requiredPagesLen - Len(s.pages))]
             i == pageIndex - s1.minPageIndex
         IN [s |-> BP_makePage(s1, i), i |-> i]

\* sort.Slice(s.buffer, less) with less(i, j) = s.buffer[i] < s.buffer[j]
SortInts(buf) == SortSeq(buf, LAMBDA a, b : a < b)

BP_sortBuffer(s) == [s EXCEPT !.buffer = SortInts(s.buffer)]

\* faulty variant: the page of a group is created however few indexes the
\* group has
BP_compactGroup_alwaysCreates(s, pageIndex, m) ==
    LET pageLen == 2 ^ s.pageLenLog2
        r == BP_page(s, pageIndex, TRUE)
        group == {j \in 1..Len(s.buffer) : BP_pageIndex(s, s.buffer[j]) = pageIndex}
    IN [r.s EXCEPT !.pages[r.i + 1].c =
                       Slice([l \in 1..pageLen |->
                                 r.s.pages[r.i + 1].c[l]
                                 + Cardinality({j \in group :
                                       BP_lineIndex(s, s.buffer[j]) = l - 1})]),
                   !.buffer = SelectSeq(r.s.buffer,
                                 LAMBDA x : BP_pageIndex(s, x) # pageIndex)]

\* one iteration of the loop of compact: the group of buffered indexes that
\* fall on page pageIndex, m of them; the buffer itself is filtered afterwards
BP_compactGroup(s, pageIndex, m) ==
    LET pageLen == 2 ^ s.pageLenLog2
        ensureExists == m * bufferEntrySize >= pageLen * float64size
        r == BP_page(s, pageIndex, ensureExists)
        s1 == r.s
        hasPage == r.i >= 0 /\ Len(s1.pages[r.i + 1].c) > 0
        group == {j \in 1..Len(s.buffer) : BP_pageIndex(s, s.buffer[j]) = pageIndex}
        newPage == Slice([l \in 1..pageLen |->
                             s1.pages[r.i + 1].c[l]
                             + Cardinality({j \in group :
                                   BP_lineIndex(s, s.buffer[j]) = l - 1})])
    IN IF hasPage
       THEN [s1 EXCEPT !.pages[r.i + 1].c = newPage,
                       !.buffer = SelectSeq(s1.buffer,
                                     LAMBDA x : BP_pageIndex(s, x) # pageIndex)]
       ELSE s1

\* the loop of compact over the groups of the sorted buffer, by ascending page
RECURSIVE BP_compactLoop(_, _)
BP_compactLoop(s, pageIndexes) ==
    IF pageIndexes = {} THEN s
    ELSE LET p == CHOOSE x \in pageIndexes : \A y \in pageIndexes : x <= y
             m == Cardinality({j \in 1..Len(s.buffer) :
                                  BP_pageIndex(s, s.buffer[j]) = p})
         IN BP_compactLoop(BP_compactGroup(s, p, m), pageIndexes \ {p})

\* faulty variant: the compaction leaves bufferCompactionTriggerLen as it was
BP_compact_keepsTrigger(s) ==
    LET s1 == BP_sortBuffer(s)
    IN BP_compactLoop(s1, {BP_pageIndex(s1, s1.buffer[j]) : j \in 1..Len(s1.buffer)})

\* a faulty variant: the compaction empties the buffer
BP_compact_emptiesBuffer(s) ==
    [BP_sortBuffer(s) EXCEPT !.buffer = <<>>,
                             !.bufferCompactionTriggerLen = 2 ^ s.pageLenLog2]

BP_compact(s) ==
    LET s1 == BP_sortBuffer(s)
        s2 == BP_compactLoop(s1, {BP_pageIndex(s1, s1.buffer[j]) :
                                     j \in 1..Len(s1.buffer)})
    IN [s2 EXCEPT !.bufferCompactionTriggerLen =
                      Len(s2.buffer) + 2 ^ s.pageLenLog2]

\* the capacities, in 8-byte elements, the allocator serves below 2048 bytes
SizeClasses ==
    {1, 2, 3, 4, 6, 8, 10, 12, 14, 16, 18, 20, 22, 24, 26, 28, 30, 32, 36, 40,
     44, 48, 52, 56, 60, 64, 72, 80, 88, 96, 112, 128, 144, 160, 176, 192, 224,
     256}

roundupsize(n) ==
    LET C == {c \in SizeClasses : c >= n}
    IN IF C = {} THEN n ELSE CHOOSE c \in C : \A d \in C : c <= d

\* cap of the slice that append returns for a slice of capacity cap that has
\* to hold needed elements: unchanged when they fit, else doubled (or needed,
\* if more) and rounded up to a size class
AppendCap(cap, needed) ==
    IF needed <= cap THEN cap
    ELSE roundupsize(IF needed > 2 * cap THEN needed ELSE 2 * cap)

\* cap after the elements are appended one by one
RECURSIVE GrowCap(_, _)
GrowCap(cap, needed) ==
    IF needed <= cap THEN cap ELSE GrowCap(AppendCap(cap, cap + 1), needed)

BP_Add(s, index) ==
    LET pageIndex == BP_pageIndex(s, index)
        i == pageIndex - s.minPageIndex
        s1 == IF Len(s.buffer) = s.bufferCap
                 /\ Len(s.buffer) >= s.bufferCompactionTriggerLen
              THEN BP_compact(s) ELSE s
    IN IF BP_inPages(s, pageIndex) /\ Len(s.pages[i + 1].c) > 0
       THEN [s EXCEPT !.pages[i + 1].c[BP_lineIndex(s, index) + 1] = @ + 1]
       ELSE [s1 EXCEPT !.buffer = Append(s1.buffer, index),
                       !.bufferCap = AppendCap(s1.bufferCap, Len(s1.buffer) + 1)]

BP_AddWithCount(s, index, count) ==
    IF count = 0 THEN s
    ELSE IF count = 1 THEN BP_Add(s, index)
    ELSE LET r == BP_page(s, BP_pageIndex(s, index), TRUE)
         IN [r.s EXCEPT !.pages[r.i + 1].c[BP_lineIndex(s, index) + 1] = @ + count]

BP_AddBin(s, bin) == BP_AddWithCount(s, bin.index, bin.count)

\* the indexes of the lines of the pages that hold a non-zero count
BP_lines(s) ==
    UNION {{BP_index(s, s.minPageIndex + (po - 1), l - 1) :
               l \in {x \in 1..Len(s.pages[po].c) : s.pages[po].c[x] # 0}} :
           po \in 1..Len(s.pages)}

\* the index of the first line of the first page that is not empty
BP_firstLine(s) ==
    LET P == {po \in 1..Len(s.pages) : Len(s.pages[po].c) > 0}
    IN {BP_index(s, s.minPageIndex + (po - 1), 0) :
           po \in {x \in P : \A y \in P : x <= y}}

\* the count of the line of index in the pages, 0 without such a line
BP_count(s, index) ==
    LET po == BP_pageIndex(s, index) - s.minPageIndex
    IN IF BP_inPages(s, BP_pageIndex(s, index)) /\ Len(s.pages[po + 1].c) > 0
       THEN s.pages[po + 1].c[BP_lineIndex(s, index) + 1]
       ELSE 0

BP_TotalCount(s) ==
    LET lines == BP_lines(s)
    IN Len(s.buffer) + SumOver([x \in lines |-> BP_count(s, x)], lines)

BP_IsEmpty(s) ==
    /\ Len(s.buffer) = 0
    /\ \A x \in BP_lines(s) : ~(BP_count(s, x) > 0)

\* the buffered indexes, as a set, and how many times index is buffered
BP_buffered(s) == {s.buffer[j] : j \in 1..Len(s.buffer)}

BP_MinIndex(s) ==
    LET isEmpty == Len(s.buffer) = 0
        minIndex == CHOOSE b \in BP_buffered(s) : \A c \in BP_buffered(s) : b <= c
        L == {x \in BP_lines(s) : BP_count(s, x) > 0 /\ (isEmpty \/ x < minIndex)}
    IN IF L # {} THEN [err |-> FALSE, v |-> CHOOSE x \in L : \A y \in L : x <= y]
       ELSE IF isEmpty THEN [err |-> TRUE, v |-> 0]
       ELSE [err |-> FALSE, v |-> minIndex]

BP_MaxIndex(s) ==
    LET isEmpty == Len(s.buffer) = 0
        maxIndex == CHOOSE b \in BP_buffered(s) : \A c \in BP_buffered(s) : b >= c
        L == {x \in BP_lines(s) : BP_count(s, x) > 0 /\ (isEmpty \/ x >= maxIndex)}
    IN IF L # {} THEN [err |-> FALSE, v |-> CHOOSE x \in L : \A y \in L : x >= y]
       ELSE IF isEmpty THEN [err |-> TRUE, v |-> 0]
       ELSE [err |-> FALSE, v |-> maxIndex]

\* the sum of the page counts of the lines up to index, lines being the
\* indexes of the lines of non-zero count
BP_pagesCumul(s, lines, index) ==
    SumOver([x \in lines |-> BP_count(s, x)], {x \in lines : x <= index})

\* a faulty variant: the buffer is walked as it is, without sortBuffer
BP_minIndexWithCumulCount_unsorted(s, rankNum, rankDen) ==
    LET buf == s.buffer
        lines == BP_lines(s)
        atLine(x) == Cardinality({j \in 1..Len(buf) : buf[j] < x})
                     + BP_pagesCumul(s, lines, x)
        atBuffer(j) == j + BP_pagesCumul(s, lines, buf[j])
        L == {x \in lines \cup BP_firstLine(s) :
                 atLine(x) * rankDen > rankNum}
        B == {j \in 1..Len(buf) : atBuffer(j) * rankDen > rankNum}
        firstLine == CHOOSE x \in L : \A y \in L : x <= y
        firstBuffered == buf[CHOOSE j \in B : \A k \in B : j <= k]
    IN IF L = {} /\ B = {} THEN [err |-> TRUE, v |-> 0]
       ELSE IF B = {} THEN [err |-> FALSE, v |-> firstLine]
       ELSE IF L = {} THEN [err |-> FALSE, v |-> firstBuffered]
       ELSE IF firstLine <= firstBuffered THEN [err |-> FALSE, v |-> firstLine]
       ELSE [err |-> FALSE, v |-> firstBuffered]

\* minIndexWithCumulCount with the predicate cumulCount > rankNum/rankDen.
\* The pages and the sorted buffer are walked together; the line of an index
\* is visited before the buffered entries of that index. The cumulative count
\* changes at the buffered indexes and at the lines of non-zero count only, so
\* the first visit that verifies the predicate is one of these or the first.
BP_minIndexWithCumulCount(s, rankNum, rankDen) ==
    LET buf == SortInts(s.buffer)
        lines == BP_lines(s)
        atLine(x) == Cardinality({j \in 1..Len(buf) : buf[j] < x})
                     + BP_pagesCumul(s, lines, x)
        atBuffer(j) == j + BP_pagesCumul(s, lines, buf[j])
        L == {x \in lines \cup BP_firstLine(s) :
                 atLine(x) * rankDen > rankNum}
        B == {j \in 1..Len(buf) : atBuffer(j) * rankDen > rankNum}
        firstLine == CHOOSE x \in L : \A y \in L : x <= y
        firstBuffered == buf[CHOOSE j \in B : \A k \in B : j <= k]
    IN IF L = {} /\ B = {} THEN [err |-> TRUE, v |-> 0]
       ELSE IF B = {} THEN [err |-> FALSE, v |-> firstLine]
       ELSE IF L = {} THEN [err |-> FALSE, v |-> firstBuffered]
       ELSE IF firstLine <= firstBuffered THEN [err |-> FALSE, v |-> firstLine]
       ELSE [err |-> FALSE, v |-> firstBuffered]

BP_KeyAtRank(s, rankNum, rankDen) ==
    LET rank == IF rankNum < 0 THEN 0 ELSE rankNum
        key == BP_minIndexWithCumulCount(s, rank, rankDen)
        maxIndex == BP_MaxIndex(s)
    IN IF key.err
       THEN IF ~maxIndex.err THEN maxIndex.v ELSE 0
       ELSE key.v

\* the lines of non-zero count as the two range loops of Bins() visit them:
\* page after page, line after line, each with the index s.index gives it
BP_visitedLines(s) ==
    LET pageLen == 2 ^ s.pageLenLog2
        F == {p \in 0..(Len(s.pages) * pageLen - 1) :
                 /\ Len(s.pages[(p \div pageLen) + 1].c) > 0
                 /\ s.pages[(p \div pageLen) + 1].c[(p % pageLen) + 1] # 0}
        at(k) == CHOOSE p \in F : Cardinality({x \in F : x < p}) = k - 1
    IN Slice([k \in 1..Cardinality(F) |->
                 [index |-> BP_index(s, s.minPageIndex + (at(k) \div pageLen),
                                     at(k) % pageLen),
                  count |-> s.pages[(at(k) \div pageLen) + 1].c[(at(k) % pageLen) + 1]]])

\* a faulty variant: the entries equal to the one at start are not skipped
BP_skipEqual_one(buffer, start) == start + 1

\* bufferPos after bufferPos++ and the loop that skips the entries equal to
\* buffer[indexBufferStartPos]; positions are 0-based
BP_skipEqual(buffer, indexBufferStartPos) ==
    LET J == {j \in (indexBufferStartPos + 2)..Len(buffer) :
                 buffer[j] # buffer[indexBufferStartPos + 1]}
    IN IF J = {} THEN Len(buffer)
       ELSE (CHOOSE j \in J : \A k \in J : j <= k) - 1

\* the loops of Bins() and ForEach over the lines still to visit and the
\* sorted buffer from bufferPos (0-based): the bins sent, in the order sent
RECURSIVE BP_BinsLoop(_, _, _)
BP_BinsLoop(buffer, lines, bufferPos) ==
    LET indexBufferStartPos == bufferPos
        skipped == BP_skipEqual(buffer, indexBufferStartPos)
        buffered == buffer[indexBufferStartPos + 1]
    IN IF lines = <<>>
       THEN IF bufferPos >= Len(buffer) THEN <<>>
            ELSE <<[index |-> buffered, count |-> skipped - indexBufferStartPos]>>
                 \o BP_BinsLoop(buffer, lines, skipped)
       ELSE IF indexBufferStartPos >= Len(buffer) \/ buffered > Head(lines).index
       THEN <<Head(lines)>> \o BP_BinsLoop(buffer, Tail(lines), bufferPos)
       ELSE IF buffered = Head(lines).index
       THEN <<[index |-> Head(lines).index,
               count |-> Head(lines).count + (skipped - indexBufferStartPos)]>>
            \o BP_BinsLoop(buffer, Tail(lines), skipped)
       ELSE <<[index |-> buffered, count |-> skipped - indexBufferStartPos]>>
            \o BP_BinsLoop(buffer, lines, skipped)

\* Bins(), read to the end, and ForEach with an f that never stops: both sort
\* the buffer and run the same loops
BP_Bins(s) == BP_BinsLoop(SortInts(s.buffer), BP_visitedLines(s), 0)

\* the loop of the optimized merging, from position oBufferOffset of o.buffer
RECURSIVE BP_mergeBuffer(_, _, _)
BP_mergeBuffer(s, oBuffer, oBufferOffset) ==
    LET bufferCapOverhead ==
            max(s.bufferCap, s.bufferCompactionTriggerLen) - Len(s.buffer)
        appended(n) ==
            [s EXCEPT !.buffer = s.buffer
                          \o SubSeq(oBuffer, oBufferOffset + 1, oBufferOffset + n),
                      !.bufferCap = AppendCap(s.bufferCap, Len(s.buffer) + n)]
    IN IF bufferCapOverhead >= Len(oBuffer) - oBufferOffset
       THEN appended(Len(oBuffer) - oBufferOffset)
       ELSE BP_mergeBuffer(BP_compact(appended(bufferCapOverhead)), oBuffer,
                           oBufferOffset + bufferCapOverhead)

RECURSIVE BP_AddBins(_, _)
BP_AddBins(s, bins) ==
    IF bins = <<>> THEN s
    ELSE BP_AddBins(BP_AddBin(s, Head(bins)), Tail(bins))

\* oBins is other.Bins(), whose call sorts the buffer of a paginated other;
\* Bins() of a dense store that has no bins allocated reads s.bins[0] and
\* panics
BP_MergeWith(s, o, oBins) ==
    IF o.kind = "bp" /\ Len(o.pages) = 0
    THEN BP_mergeBuffer(s, o.buffer, 0)
    ELSE IF o.kind # "bp" /\ Len(o.bins) = 0 THEN Panic(s)
    ELSE BP_AddBins(s, oBins)

\* DecodeAndMergeWith of a BinEncodingIndexDeltas block that decodes into
\* indexes (the running sums of the deltas)
RECURSIVE BP_DecodeAndMergeWith(_, _)
BP_DecodeAndMergeWith(s, indexes) ==
    LET remaining == Len(indexes)
        batchSize == min(remaining,
                         max(s.bufferCap, s.bufferCompactionTriggerLen)
                         - Len(s.buffer))
        s1 == [s EXCEPT !.buffer = s.buffer \o SubSeq(indexes, 1, batchSize),
                        !.bufferCap = GrowCap(s.bufferCap,
                                              Len(s.buffer) + batchSize)]
    IN IF remaining - batchSize = 0 THEN s1
       ELSE BP_DecodeAndMergeWith(BP_compact(s1),
                                  SubSeq(indexes, batchSize + 1, remaining))

\* s.Add(index) for each of indexes in turn
RECURSIVE BP_addAll(_, _)
BP_addAll(s, indexes) ==
    IF indexes = <<>> \/ s.panicked THEN s
    ELSE BP_addAll(BP_Add(s, Head(indexes)), Tail(indexes))

\* max(cap(s.buffer), s.bufferCompactionTriggerLen) - len(s.buffer)
BP_bufferCapOverhead(s) ==
    max(s.bufferCap, s.bufferCompactionTriggerLen) - Len(s.buffer)

\* one pass of the loop of the optimized merging, rest being what is left of
\* o.buffer: the number of indexes the pass appends and whether it returns
BP_mergeIteration(s, rest) ==
    LET bufferCapOverhead == BP_bufferCapOverhead(s)
        returned == bufferCapOverhead >= Len(rest)
    IN [taken |-> IF returned THEN Len(rest) ELSE bufferCapOverhead,
        returned |-> returned]

\* s.buffer = append(s.buffer, rest[:n]...)
BP_appended(s, rest, n) ==
    [s EXCEPT !.buffer = s.buffer \o SubSeq(rest, 1, n),
              !.bufferCap = AppendCap(s.bufferCap, Len(s.buffer) + n)]

\* one pass of the loop of DecodeAndMergeWith over a block of index deltas,
\* rest being the indexes not decoded yet: the size of the batch and whether
\* the pass returns
BP_decodeIteration(s, rest) ==
    LET remaining == Len(rest)
        batchSize == min(remaining, BP_bufferCapOverhead(s))
    IN [taken |-> batchSize, returned |-> remaining - batchSize = 0]

\* s.buffer = append(s.buffer, int(index)) for the first n of rest, in turn
BP_appendedEach(s, rest, n) ==
    [s EXCEPT !.buffer = s.buffer \o SubSeq(rest, 1, n),
              !.bufferCap = GrowCap(s.bufferCap, Len(s.buffer) + n)]

\* Copy() of the store of buffered_paginated.go: the buffer and the pages that
\* hold counts are copied into new slices
BP_Copy(s) ==
    [kind |-> "bp",
     buffer |-> Slice([i \in 1..Len(s.buffer) |-> s.buffer[i]]),
     bufferCap |-> Len(s.buffer),
     bufferCompactionTriggerLen |-> s.bufferCompactionTriggerLen,
     pages |-> Slice([i \in 1..Len(s.pages) |->
                         IF Len(s.pages[i].c) > 0 THEN s.pages[i] ELSE NilPage]),
     minPageIndex |-> s.minPageIndex,
     pageLenLog2 |-> s.pageLenLog2,
     pageLenMask |-> s.pageLenMask,
     emptyPageMinPos |-> Len(s.pages),
     panicked |-> FALSE]

\* for _, p := range s.pages { for i := range p { p[i] *= w } }
ScaleCounts(pages, w) ==
    Slice([i \in 1..Len(pages) |->
              [nil |-> pages[i].nil,
               c |-> Slice([l \in 1..Len(pages[i].c) |-> pages[i].c[l] * w])]])

\* faulty variant: the buffered indexes are dropped, not added with count w
BP_Reweight_dropsBuffer(s, w) ==
    IF w <= 0 \/ w = 1 THEN s
    ELSE [s EXCEPT !.buffer = <<>>,
                   !.pages = ScaleCounts(s.pages, w)]

\* Reweight(w): an error and no change for w <= 0, nothing to do for w = 1;
\* otherwise the buffer is emptied (its capacity is kept), the counts of the
\* pages are multiplied and the indexes that were buffered are added with
\* count w, which puts them in pages since w is not 1
BP_Reweight(s, w) ==
    IF w <= 0 \/ w = 1 THEN s
    ELSE BP_AddBins(
             [s EXCEPT !.buffer = <<>>,
                       !.pages = ScaleCounts(s.pages, w)],
             [i \in 1..Len(s.buffer) |-> [index |-> s.buffer[i], count |-> w]])

\* a faulty variant: the buffer is emptied, the pages keep their counts
BP_Clear_keepsCounts(s) == [s EXCEPT !.buffer = <<>>]

\* Clear(): the pages that are not nil are emptied and moved to the head of
\* s.pages
BP_Clear(s) ==
    LET j == Cardinality({i \in 1..Len(s.pages) : ~s.pages[i].nil})
    IN [s EXCEPT !.buffer = <<>>,
                 !.pages = Slice([i \in 1..j |-> [nil |-> FALSE, c |-> <<>>]]),
                 !.emptyPageMinPos = 0,
                 !.minPageIndex = maxInt]

----------------------------------------------------------------------------
(* BufferedPaginatedStore with a paged buffer (part_011, buffer.go)         *)
(* The buffer is a list of pages of indexes, every page a block of the       *)
(* memory pool; lastPage is "nil" (a nil pointer), "empty" (a pointer to an  *)
(* empty slice of capacity 0) or "last" (a pointer to the last page).        *)
(* The pages of counts are held as in the store above. The blocks are        *)
(* values here; memory is the pointer to the pool a store or a buffer takes  *)
(* its blocks from.                                                          *)

\* sizes in bytes, as logarithms (a 64-bit build)
defaultPageSizeLog2 == 8

intSizeLog2 == 3

float64sizeLog2 == 3

\* the number of indexes in a page of the buffer, of counts in a page
bufferPageLen == 2 ^ (defaultPageSizeLog2 - intSizeLog2)

countPageLen == 2 ^ (defaultPageSizeLog2 - float64sizeLog2)

\* newUnlimitedMemoryPool(blockSizeLog2): a pointer to a new memoryPool. The
\* model holds the pointer as a number, and the one store that a run
\* constructs with NewBufferedPaginatedStore gets the first pool; the blocks
\* in the pool are not held, acquire() zeroes a block before it returns it
newUnlimitedMemoryPool == 1

newBuffer(memory) ==
    [pages |-> <<>>, lastPage |-> "empty", sortedLen |-> 0, memory |-> memory]

\* len of the last page < cap of the last page, b.lastPage not nil
buffer_lastPageHasRoom(b) ==
    b.lastPage = "last" /\ Len(b.pages[Len(b.pages)]) < bufferPageLen

\* tryAdding(index): the buffer afterwards, whether the index was added, and
\* whether b.lastPage, being nil, was dereferenced
buffer_tryAdding(b, index) ==
    IF b.lastPage = "nil" THEN [b |-> b, ok |-> FALSE, panicked |-> TRUE]
    ELSE IF buffer_lastPageHasRoom(b)
    THEN [b |-> [b EXCEPT !.pages[Len(b.pages)] = Append(@, index)],
          ok |-> TRUE, panicked |-> FALSE]
    ELSE [b |-> b, ok |-> FALSE, panicked |-> FALSE]

\* add(index)
buffer_add(b, index) ==
    LET r == buffer_tryAdding(b, index)
    IN IF r.panicked \/ r.ok THEN r
       ELSE [b |-> [b EXCEPT !.pages = Append(@, <<index>>), !.lastPage = "last"],
             ok |-> TRUE, panicked |-> FALSE]

buffer_empty(b) == Len(b.pages) = 0

buffer_Len(b) ==
    IF Len(b.pages) = 0 THEN 0
    ELSE (Len(b.pages) - 1) * bufferPageLen + Len(b.pages[Len(b.pages)])

\* the indexes in the order of forEach
RECURSIVE buffer_flat(_)
buffer_flat(pages) ==
    IF pages = <<>> THEN <<>> ELSE Head(pages) \o buffer_flat(Tail(pages))

\* indexes cut into pages of bufferPageLen
buffer_paged(indexes) ==
    Slice([p \in 1..((Len(indexes) + bufferPageLen - 1) \div bufferPageLen) |->
              SubSeq(indexes, (p - 1) * bufferPageLen + 1,
                     min(p * bufferPageLen, Len(indexes)))])

\* trim(l), 0 <= l <= Len(): the pages beyond l are released
buffer_trim(b, l) ==
    LET pages == buffer_paged(SubSeq(buffer_flat(b.pages), 1, l))
    IN [b EXCEPT !.pages = pages,
                 !.lastPage = IF Len(pages) = 0 THEN "empty" ELSE "last",
                 !.sortedLen = min(b.sortedLen, l)]

\* copy(): the pages are copied into blocks of the pool; lastPage and sortedLen
\* are not set and keep their zero values
buffer_copy(b) ==
    [pages |-> Slice([i \in 1..Len(b.pages) |-> b.pages[i]]),
     lastPage |-> "nil",
     sortedLen |-> 0,
     memory |-> b.memory]

\* sort(): the indexes in ascending order, in pages of the same lengths
buffer_sort(b) ==
    [b EXCEPT !.pages = buffer_paged(SortInts(buffer_flat(b.pages))),
              !.sortedLen = buffer_Len(b)]

BP2_NewBufferedPaginatedStore ==
    [kind |-> "bp2", buffer |-> newBuffer(newUnlimitedMemoryPool),
     lastCompactionBufferLen |-> 0,
     pages |-> <<>>, minPageIndex |-> maxInt,
     memory |-> newUnlimitedMemoryPool, panicked |-> FALSE]

BP2_pageIndex(index) == index \div countPageLen

BP2_lineIndex(index) == index % countPageLen

\* existingPage(pageIndex): its position in s.pages (1-based), 0 for nil
BP2_existingPage(s, pageIndex) ==
    IF pageIndex >= s.minPageIndex /\ pageIndex < s.minPageIndex + Len(s.pages)
       /\ ~s.pages[pageIndex - s.minPageIndex + 1].nil
    THEN pageIndex - s.minPageIndex + 1
    ELSE 0

\* page(pageIndex, ensureExists): the store afterwards and the position of the
\* page returned (1-based), 0 for nil
BP2_page(s, pageIndex, ensureExists) ==
    IF ~ensureExists \/ BP2_existingPage(s, pageIndex) # 0
    THEN [s |-> s, pos |-> BP2_existingPage(s, pageIndex)]
    ELSE LET shift == IF s.minPageIndex # maxInt /\ pageIndex < s.minPageIndex
                      THEN s.minPageIndex - pageIndex ELSE 0
             newPagesLen ==
                 IF s.minPageIndex = maxInt THEN 1
                 ELSE IF pageIndex < s.minPageIndex THEN shift + Len(s.pages)
                 ELSE IF pageIndex >= s.minPageIndex + Len(s.pages)
                 THEN pageIndex - s.minPageIndex + 1
                 ELSE Len(s.pages)
             pages == Nils(shift) \o s.pages
                          \o Nils(newPagesLen - shift - Len(s.pages))
             minPageIndex == IF s.minPageIndex = maxInt THEN pageIndex
                             ELSE s.minPageIndex - shift
             pos == pageIndex - minPageIndex + 1
         IN [s |-> [s EXCEPT !.pages = [pages EXCEPT ![pos] =
                                 [nil |-> FALSE, c |-> Zeros(countPageLen)]],
                             !.minPageIndex = minPageIndex],
             pos |-> pos]

\* the loop of buffer.compact with the consumer of the store: the section of
\* the sorted indexes that starts at pos (1-based) goes to its page of counts
\* when the page exists or is worth creating, and is kept otherwise
RECURSIVE BP2_compactLoop(_, _, _, _)
BP2_compactLoop(s, sorted, pos, kept) ==
    IF pos > Len(sorted) THEN [s |-> s, kept |-> kept]
    ELSE LET sectionCountPageIndex == BP2_pageIndex(sorted[pos])
             D == {j \in pos..Len(sorted) :
                      BP2_pageIndex(sorted[j]) # sectionCountPageIndex}
             end == IF D = {} THEN Len(sorted)
                    ELSE (CHOOSE j \in D : \A k \in D : j <= k) - 1
             sectionLen == end - pos + 1
             ensureExists == countPageLen * (2 ^ float64sizeLog2)
                                 <= sectionLen * (2 ^ intSizeLog2)
             r == BP2_page(s, sectionCountPageIndex, ensureExists)
             lines == {BP2_lineIndex(sorted[j]) : j \in pos..end}
             inSection(line) ==
                 Cardinality({j \in pos..end : BP2_lineIndex(sorted[j]) = line})
         IN IF r.pos = 0
            THEN BP2_compactLoop(s, sorted, end + 1,
                                 kept \o SubSeq(sorted, pos, end))
            ELSE BP2_compactLoop(
                     [r.s EXCEPT !.pages[r.pos].c =
                         [l \in 1..countPageLen |->
                             IF (l - 1) \in lines THEN @[l] + inSection(l - 1)
                             ELSE @[l]]],
                     sorted, end + 1, kept)

\* the end of compact(): the indexes kept are the buffer, sorted so far
BP2_compactEnd(s, sorted, r) ==
    LET b == buffer_trim([buffer_sort(s.buffer) EXCEPT
                              !.pages = buffer_paged(r.kept
                                            \o SubSeq(sorted, Len(r.kept) + 1,
                                                      Len(sorted)))],
                         Len(r.kept))
    IN [r.s EXCEPT !.buffer = b, !.lastCompactionBufferLen = buffer_Len(b)]

BP2_compact(s) ==
    LET sorted == SortInts(buffer_flat(s.buffer.pages))
    IN BP2_compactEnd(s, sorted, BP2_compactLoop(s, sorted, 1, <<>>))

BP2_increment(s, pos, index) ==
    [s EXCEPT !.pages[pos].c[BP2_lineIndex(index) + 1] = @ + 1]

\* the end of Add(index), after the compaction if there was one: the page
\* may exist now, and the index is buffered otherwise
BP2_addAfterCompaction(s, index) ==
    LET existing == BP2_existingPage(s, BP2_pageIndex(index))
        added == buffer_add(s.buffer, index)
    IN IF existing # 0 THEN BP2_increment(s, existing, index)
       ELSE IF added.panicked THEN Panic(s)
       ELSE [s EXCEPT !.buffer = added.b]

BP2_Add(s, index) ==
    LET existing == BP2_existingPage(s, BP2_pageIndex(index))
        tried == buffer_tryAdding(s.buffer, index)
    IN IF existing # 0 THEN BP2_increment(s, existing, index)
       ELSE IF tried.panicked THEN Panic(s)
       ELSE IF tried.ok THEN [s EXCEPT !.buffer = tried.b]
       ELSE BP2_addAfterCompaction(
                IF buffer_Len(s.buffer)
                       >= s.lastCompactionBufferLen + 2 * bufferPageLen
                THEN BP2_compact(s) ELSE s,
                index)

BP2_AddWithCount(s, index, count) ==
    IF count = 0 THEN s
    ELSE IF count = 1 THEN BP2_Add(s, index)
    ELSE LET r == BP2_page(s, BP2_pageIndex(index), TRUE)
         IN [r.s EXCEPT !.pages[r.pos].c[BP2_lineIndex(index) + 1] = @ + count]

BP2_AddBin(s, bin) == BP2_AddWithCount(s, bin.index, bin.count)

\* the count held in the pages for index
BP2_count(s, index) ==
    LET pos == BP2_existingPage(s, BP2_pageIndex(index))
    IN IF pos = 0 THEN 0 ELSE s.pages[pos].c[BP2_lineIndex(index) + 1]

\* the indexes of the lines of the pages that hold a non-zero count
BP2_lines(s) ==
    {(s.minPageIndex + p - 1) * countPageLen + l - 1 :
        <<p, l>> \in {x \in (1..Len(s.pages)) \X (1..countPageLen) :
                         ~s.pages[x[1]].nil /\ s.pages[x[1]].c[x[2]] # 0}}

BP2_TotalCount(s) ==
    LET lines == BP2_lines(s)
    IN buffer_Len(s.buffer) + SumOver([x \in lines |-> BP2_count(s, x)], lines)

\* what Bins() sends: the bins in ascending order of the index, the count of an
\* index being the times it is buffered plus its count in the pages
RECURSIVE BP2_binsOf(_, _)
BP2_binsOf(s, I) ==
    IF I = {} THEN <<>>
    ELSE LET flat == buffer_flat(s.buffer.pages)
             idx == CHOOSE j \in I : \A k \in I : j <= k
             buffered == Cardinality({j \in 1..Len(flat) : flat[j] = idx})
         IN <<[index |-> idx, count |-> buffered + BP2_count(s, idx)]>>
                \o BP2_binsOf(s, I \ {idx})

BP2_Bins(s) ==
    LET flat == buffer_flat(s.buffer.pages)
    IN BP2_binsOf(s, {flat[j] : j \in 1..Len(flat)} \cup BP2_lines(s))

\* IsEmpty(): nothing buffered and no positive count in the pages
BP2_IsEmpty(s) ==
    /\ buffer_empty(s.buffer)
    /\ \A x \in BP2_lines(s) : ~(BP2_count(s, x) > 0)

\* MinIndex() and MaxIndex(): the first index that forEachOrdered visits,
\* ascending and descending, or an error when it visits none
BP2_MinIndex(s) ==
    LET bins == BP2_Bins(s)
    IN IF bins = <<>> THEN [err |-> TRUE, v |-> 0]
       ELSE [err |-> FALSE, v |-> bins[1].index]

BP2_MaxIndex(s) ==
    LET bins == BP2_Bins(s)
    IN IF bins = <<>> THEN [err |-> TRUE, v |-> 0]
       ELSE [err |-> FALSE, v |-> bins[Len(bins)].index]

\* Copy()
BP2_Copy(s) ==
    [kind |-> "bp2",
     buffer |-> buffer_copy(s.buffer),
     lastCompactionBufferLen |-> s.lastCompactionBufferLen,
     pages |-> Slice([i \in 1..Len(s.pages) |-> s.pages[i]]),
     minPageIndex |-> s.minPageIndex,
     memory |-> s.memory,
     panicked |-> FALSE]

\* Clear()
BP2_Clear(s) ==
    [s EXCEPT !.buffer = buffer_trim(s.buffer, 0),
              !.pages = <<>>,
              !.minPageIndex = maxInt]

\* the loops of MergeWith(o) for a store o of the same type
RECURSIVE BP2_addAll(_, _)
BP2_addAll(s, indexes) ==
    IF indexes = <<>> \/ s.panicked THEN s
    ELSE BP2_addAll(BP2_Add(s, Head(indexes)), Tail(indexes))

RECURSIVE BP2_mergePages(_, _, _)
BP2_mergePages(s, o, oPageOffset) ==
    IF oPageOffset >= Len(o.pages) THEN s
    ELSE LET r == BP2_page(s, o.minPageIndex + oPageOffset, TRUE)
             oPage == o.pages[oPageOffset + 1]
         IN BP2_mergePages(
                IF oPage.nil THEN r.s
                ELSE [r.s EXCEPT !.pages[r.pos].c =
                         [l \in 1..countPageLen |-> @[l] + oPage.c[l]]],
                o, oPageOffset + 1)

RECURSIVE BP2_addBins(_, _)
BP2_addBins(s, bins) ==
    IF bins = <<>> \/ s.panicked THEN s
    ELSE BP2_addBins(BP2_AddBin(s, Head(bins)), Tail(bins))

\* the end of Reweight: s.buffer.trim(0)
BP2_trimBuffer(s) ==
    IF s.panicked THEN s ELSE [s EXCEPT !.buffer = buffer_trim(@, 0)]

\* Reweight(w) of part_011: the counts of the pages are multiplied, then the
\* buffered indexes are added with count w (to pages, since w is not 1), then
\* the buffer is trimmed to length 0
BP2_Reweight(s, w) ==
    IF w <= 0 \/ w = 1 THEN s
    ELSE LET indexes == buffer_flat(s.buffer.pages)
         IN BP2_trimBuffer(
                BP2_addBins([s EXCEPT !.pages = ScaleCounts(s.pages, w)],
                            [i \in 1..Len(indexes) |->
                                [index |-> indexes[i], count |-> w]]))

BP2_MergeWith(s, o, oBins) ==
    IF o.kind = "bp2"
    THEN LET s1 == BP2_addAll(s, buffer_flat(o.buffer.pages))
         IN IF s1.panicked THEN s1 ELSE BP2_mergePages(s1, o, 0)
    ELSE BP2_addBins(s, oBins)

----------------------------------------------------------------------------
(* The binary encoding of the stores                                         *)
(* A byte slice is a sequence of numbers 0..255. The encoders are those the   *)
(* tables of encoding_test.go pin down; varfloat64 is computed for the       *)
(* counts 0..254, whose encoding has one or two bytes. The byte of a flag is  *)
(* held as 256 + its SubFlag: it is one byte of the slice, and no byte of a   *)
(* payload is read as a flag.                                                 *)

BinEncodingIndexDeltas == 1
BinEncodingContiguousCounts == 3

\* EncodeFlag(b, NewFlag(t, subFlag)): the byte appended
EncodeFlag(subFlag) == <<256 + subFlag>>

\* EncodeUvarint64(b, x): 7 bits a byte, the low bits first, the high bit of a
\* byte set when more bytes follow
RECURSIVE EncodeUvarint64(_)
EncodeUvarint64(x) ==
    IF x < 128 THEN <<x>>
    ELSE <<128 + (x % 128)>> \o EncodeUvarint64(x \div 128)

\* EncodeVarint64(b, x): zig-zag, then uvarint
EncodeVarint64(x) == EncodeUvarint64(IF x >= 0 THEN 2 * x ELSE -2 * x - 1)

\* floor(log2(x)), x >= 1
RECURSIVE Log2(_)
Log2(x) == IF x < 2 THEN 0 ELSE 1 + Log2(x \div 2)

\* EncodeVarfloat64(b, x), 0 <= x <= 254 a whole number: the bits of the
\* float64 x + 1 less the bits of 1, rotated left by 6, written 7 bits a byte
\* from the high bits, the trailing zero bits left out. The 14 high bits are
\* the exponent e of x + 1 (6 bits) and the 8 high bits of its fraction.
EncodeVarfloat64(x) ==
    LET e == Log2(x + 1)
        high14 == e * 256 + ((x + 1 - 2 ^ e) * 256) \div (2 ^ e)
    IN IF high14 % 128 = 0 THEN <<high14 \div 128>>
       ELSE <<128 + (high14 \div 128), high14 % 128>>

\* DecodeUvarint64(b): the value, the bytes left, and whether io.EOF is
\* returned; a flag byte in the payload ends the model's run of the decoder
\* as a byte without the high bit set does
RECURSIVE DecodeUvarint64(_)
DecodeUvarint64(b) ==
    IF b = <<>> THEN [v |-> 0, rest |-> <<>>, err |-> TRUE]
    ELSE IF Head(b) < 128 \/ Head(b) >= 256
    THEN [v |-> Head(b) % 256, rest |-> Tail(b), err |-> FALSE]
    ELSE LET r == DecodeUvarint64(Tail(b))
         IN [v |-> (Head(b) - 128) + 128 * r.v, rest |-> r.rest, err |-> r.err]

\* DecodeVarint64(b)
DecodeVarint64(b) ==
    LET r == DecodeUvarint64(b)
    IN [v |-> IF r.v % 2 = 0 THEN r.v \div 2 ELSE -((r.v + 1) \div 2),
        rest |-> r.rest, err |-> r.err]

\* DecodeVarfloat64(b) of one or two bytes: v is the float64 decoded when it
\* is a whole number of 0..254, and whole tells whether it is one
DecodeVarfloat64(b) ==
    IF b = <<>> THEN [v |-> 0, whole |-> TRUE, rest |-> <<>>, err |-> TRUE]
    ELSE LET two == Head(b) >= 128 /\ Head(b) < 256
             high14 == IF two /\ Len(b) >= 2
                       THEN (Head(b) - 128) * 128 + (b[2] % 128)
                       ELSE (Head(b) % 128) * 128
             e == high14 \div 256
             fraction == (high14 % 256) * 2 ^ e
             whole == e < 8 /\ fraction % 256 = 0
         IN IF two /\ Len(b) < 2
            THEN [v |-> 0, whole |-> TRUE, rest |-> <<>>, err |-> TRUE]
            ELSE [v |-> IF whole THEN 2 ^ e + (fraction \div 256) - 1 ELSE 0,
                  whole |-> whole,
                  rest |-> IF two THEN Tail(Tail(b)) ELSE Tail(b),
                  err |-> FALSE]

\* the byte slices of a sequence, one after the other
RECURSIVE Concat(_)
Concat(slices) ==
    IF slices = <<>> THEN <<>> ELSE Head(slices) \o Concat(Tail(slices))

\* faulty variant: every index is written as it is, not as the difference
\* to the index before it
EncodeIndexDeltas_absolute(indexes) ==
    EncodeUvarint64(Len(indexes))
        \o Concat([i \in 1..Len(indexes) |-> EncodeVarint64(indexes[i])])

\* the payload of a BinEncodingIndexDeltas block: the number of indexes, then
\* every index less the one before it
EncodeIndexDeltas(indexes) ==
    EncodeUvarint64(Len(indexes))
        \o Concat([i \in 1..Len(indexes) |->
                      EncodeVarint64(indexes[i]
                                     - (IF i = 1 THEN 0 ELSE indexes[i - 1]))])

EncodeCounts(counts) ==
    Concat([i \in 1..Len(counts) |-> EncodeVarfloat64(counts[i])])

\* Encode(b, t) of buffered_paginated.go: the bytes appended to b. A block of
\* contiguous counts has no stride.
BP_Encode(s) ==
    (IF Len(s.buffer) > 0
     THEN EncodeFlag(BinEncodingIndexDeltas) \o EncodeIndexDeltas(s.buffer)
     ELSE <<>>)
    \o Concat([po \in 1..Len(s.pages) |->
                  IF Len(s.pages[po].c) > 0
                  THEN EncodeFlag(BinEncodingContiguousCounts)
                           \o EncodeUvarint64(Len(s.pages[po].c))
                           \o EncodeVarint64(BP_index(s, s.minPageIndex + po - 1, 0))
                           \o EncodeCounts(s.pages[po].c)
                  ELSE <<>>])

\* Encode(b, t) of part_011: the stride 1 is written after the first index
BP2_Encode(s) ==
    (IF buffer_Len(s.buffer) > 0
     THEN EncodeFlag(BinEncodingIndexDeltas)
              \o EncodeIndexDeltas(buffer_flat(s.buffer.pages))
     ELSE <<>>)
    \o Concat([po \in 1..Len(s.pages) |->
                  IF ~s.pages[po].nil
                  THEN EncodeFlag(BinEncodingContiguousCounts)
                           \o EncodeUvarint64(Len(s.pages[po].c))
                           \o EncodeVarint64((s.minPageIndex + po - 1) * countPageLen)
                           \o EncodeVarint64(1)
                           \o EncodeCounts(s.pages[po].c)
                  ELSE <<>>])

\* the loop of the BinEncodingIndexDeltas case: the indexes decoded (the
\* running sums of the deltas), the bytes left, and whether a decoder
\* returned an error
RECURSIVE DecodeIndexDeltas(_, _, _)
DecodeIndexDeltas(b, remaining, index) ==
    IF remaining <= 0 THEN [indexes |-> <<>>, rest |-> b, err |-> FALSE]
    ELSE LET d == DecodeVarint64(b)
             r == DecodeIndexDeltas(d.rest, remaining - 1, index + d.v)
         IN IF d.err THEN [indexes |-> <<>>, rest |-> d.rest, err |-> TRUE]
            ELSE [indexes |-> <<index + d.v>> \o r.indexes,
                  rest |-> r.rest, err |-> r.err]

\* the loops of the BinEncodingContiguousCounts case of buffered_paginated.go,
\* count after count: the page is made before the count is decoded, and the
\* line after the last line of a page is line 0 of the next page
RECURSIVE BP_decodeCounts(_, _, _, _, _)
BP_decodeCounts(s, b, numBins, pageIndex, lineIndex) ==
    IF s.panicked \/ numBins = 0
    THEN [s |-> s, rest |-> b, err |-> FALSE, whole |-> TRUE]
    ELSE LET r == BP_page(s, pageIndex, TRUE)
             d == DecodeVarfloat64(b)
             s1 == [r.s EXCEPT !.pages[r.i + 1].c[lineIndex + 1] = @ + d.v]
             last == lineIndex + 1 = 2 ^ s.pageLenLog2
             next == BP_decodeCounts(s1, d.rest, numBins - 1,
                                     IF last THEN pageIndex + 1 ELSE pageIndex,
                                     IF last THEN 0 ELSE lineIndex + 1)
         IN IF d.err
            THEN [s |-> r.s, rest |-> d.rest, err |-> TRUE, whole |-> TRUE]
            ELSE [next EXCEPT !.whole = @ /\ d.whole]

\* the same loops in part_011, where the index moves by indexDelta
RECURSIVE BP2_decodeCounts(_, _, _, _, _)
BP2_decodeCounts(s, b, numBins, indexOffset, indexDelta) ==
    IF s.panicked \/ numBins = 0
    THEN [s |-> s, rest |-> b, err |-> FALSE, whole |-> TRUE]
    ELSE LET r == BP2_page(s, BP2_pageIndex(indexOffset), TRUE)
             d == DecodeVarfloat64(b)
             s1 == [r.s EXCEPT
                       !.pages[r.pos].c[BP2_lineIndex(indexOffset) + 1] = @ + d.v]
             next == BP2_decodeCounts(s1, d.rest, numBins - 1,
                                      indexOffset + indexDelta, indexDelta)
         IN IF d.err
            THEN [s |-> r.s, rest |-> d.rest, err |-> TRUE, whole |-> TRUE]
            ELSE [next EXCEPT !.whole = @ /\ d.whole]

\* DecodeAndMergeWith(b, encodingMode) of buffered_paginated.go: the store
\* and the bytes left afterwards, whether an error is returned, and whether
\* every count decoded is a whole number
BP_DecodeAndMergeWithBytes(s, b, encodingMode) ==
    LET numBins == DecodeUvarint64(b)
        deltas == DecodeIndexDeltas(numBins.rest, numBins.v, 0)
        indexOffset == DecodeVarint64(numBins.rest)
    IN IF numBins.err
       THEN [s |-> s, rest |-> numBins.rest, err |-> TRUE, whole |-> TRUE]
       ELSE IF encodingMode = BinEncodingIndexDeltas
       THEN [s |-> BP_DecodeAndMergeWith(s, deltas.indexes),
             rest |-> deltas.rest, err |-> deltas.err, whole |-> TRUE]
       ELSE IF indexOffset.err
       THEN [s |-> s, rest |-> indexOffset.rest, err |-> TRUE, whole |-> TRUE]
       ELSE BP_decodeCounts(s, indexOffset.rest, numBins.v,
                            BP_pageIndex(s, indexOffset.v),
                            BP_lineIndex(s, indexOffset.v))

\* DecodeAndMergeWith(b, encodingMode) of part_011
BP2_DecodeAndMergeWithBytes(s, b, encodingMode) ==
    LET numBins == DecodeUvarint64(b)
        deltas == DecodeIndexDeltas(numBins.rest, numBins.v, 0)
        indexOffset == DecodeVarint64(numBins.rest)
        indexDelta == DecodeVarint64(indexOffset.rest)
    IN IF numBins.err
       THEN [s |-> s, rest |-> numBins.rest, err |-> TRUE, whole |-> TRUE]
       ELSE IF encodingMode = BinEncodingIndexDeltas
       THEN [s |-> BP2_addAll(s, deltas.indexes),
             rest |-> deltas.rest, err |-> deltas.err, whole |-> TRUE]
       ELSE IF indexOffset.err \/ indexDelta.err
       THEN [s |-> s, rest |-> indexDelta.rest, err |-> TRUE, whole |-> TRUE]
       ELSE BP2_decodeCounts(s, indexDelta.rest, numBins.v,
                             indexOffset.v, indexDelta.v)

----------------------------------------------------------------------------
(* The Store interface: dynamic dispatch on the concrete type *)

Store_Bins(s) ==
    CASE s.kind = "bp" -> BP_Bins(s)
      [] s.kind = "bp2" -> BP2_Bins(s)
      [] OTHER -> DenseStore_Bins(s)

Store_Add(s, index) ==
    CASE s.kind = "dense" -> DenseStore_Add(s, index)
      [] s.kind = "lowest" -> CollapsingLowest_Add(s, index)
      [] s.kind = "highest" -> CollapsingHighest_Add(s, index)
      [] s.kind = "bp" -> BP_Add(s, index)
      [] s.kind = "bp2" -> BP2_Add(s, index)

Store_AddBin(s, bin) ==
    CASE s.kind = "dense" -> DenseStore_AddBin(s, bin)
      [] s.kind = "lowest" -> CollapsingLowest_AddBin(s, bin)
      [] s.kind = "highest" -> CollapsingHighest_AddBin(s, bin)
      [] s.kind = "bp" -> BP_AddBin(s, bin)
      [] s.kind = "bp2" -> BP2_AddBin(s, bin)

Store_TotalCount(s) ==
    CASE s.kind = "bp" -> BP_TotalCount(s)
      [] s.kind = "bp2" -> BP2_TotalCount(s)
      [] OTHER -> DenseStore_TotalCount(s)

\* MergeWith of the dense stores; oBins is other.Bins()
DenseStore_MergeWith(s, o, oBins) ==
    IF Store_TotalCount(o) = 0 THEN s
    ELSE IF o.kind # "dense" THEN DenseStore_AddBins(s, oBins)
    ELSE IF s.count = 0 THEN DenseStore_copy(s, o)
    ELSE LET s1 == IF s.minIndex > o.minIndex
                   THEN DenseStore_growLeft(s, o.minIndex) ELSE s
             s2 == IF s1.maxIndex < o.maxIndex
                   THEN DenseStore_growRight(s1, o.maxIndex) ELSE s1
             s3 == AddRange(s2, o, o.minIndex, o.maxIndex)
         IN [s3 EXCEPT !.count = @ + o.count]

CollapsingLowest_MergeWith(s, o, oBins) ==
    IF Store_TotalCount(o) = 0 THEN s
    ELSE IF o.kind # "lowest" THEN CollapsingLowest_AddBins(s, oBins)
    ELSE IF s.count = 0 THEN CollapsingLowest_copy(s, o)
    ELSE LET s1 == CollapsingLowest_growRight(s, o.maxIndex)
             s2 == CollapsingLowest_growLeft(s1, o.minIndex)
             s3 == AddRange(s2, o, max(s2.minIndex, o.minIndex),
                            min(s2.maxIndex, o.maxIndex))
             n == SumRange(o.bins, o.minIndex, o.minIndex,
                           min(s3.minIndex - 1, o.maxIndex))
         IN IF s1.panicked THEN s1
            ELSE [s3 EXCEPT !.bins[1] = @ + n, !.count = @ + o.count]

CollapsingHighest_MergeWith(s, o, oBins) ==
    IF Store_TotalCount(o) = 0 THEN s
    ELSE IF o.kind # "highest" THEN CollapsingHighest_AddBins(s, oBins)
    ELSE IF s.count = 0 THEN CollapsingHighest_copy(s, o)
    ELSE LET s1 == CollapsingHighest_growRight(s, o.maxIndex)
             s2 == CollapsingHighest_growLeft(s1, o.minIndex)
             s3 == AddRange(s2, o, max(s2.minIndex, o.minIndex),
                            min(s2.maxIndex, o.maxIndex))
             n == SumRange(o.bins, o.minIndex, max(s3.maxIndex + 1, o.minIndex),
                           o.maxIndex)
         IN IF s2.panicked THEN s2
            ELSE [s3 EXCEPT !.bins[Len(s3.bins)] = @ + n, !.count = @ + o.count]

Store_MergeWith(s, o) ==
    CASE s.kind = "dense" -> DenseStore_MergeWith(s, o, Store_Bins(o))
      [] s.kind = "lowest" -> CollapsingLowest_MergeWith(s, o, Store_Bins(o))
      [] s.kind = "highest" -> CollapsingHighest_MergeWith(s, o, Store_Bins(o))
      [] s.kind = "bp" -> BP_MergeWith(s, o, Store_Bins(o))
      [] s.kind = "bp2" -> BP2_MergeWith(s, o, Store_Bins(o))

\* Copy() and Clear(), of the paginated stores
Store_Copy(s) == IF s.kind = "bp" THEN BP_Copy(s) ELSE BP2_Copy(s)

Store_Clear(s) == IF s.kind = "bp" THEN BP_Clear(s) ELSE BP2_Clear(s)

\* Reweight(w) of the paginated stores, and the error it returns
Store_Reweight(s, w) ==
    IF s.kind = "bp" THEN BP_Reweight(s, w) ELSE BP2_Reweight(s, w)

Store_Reweight_err(w) == w <= 0

Store_MinIndex(s) ==
    CASE s.kind = "bp" -> BP_MinIndex(s)
      [] s.kind = "bp2" -> BP2_MinIndex(s)
      [] OTHER -> DenseStore_MinIndex(s)

Store_MaxIndex(s) ==
    CASE s.kind = "bp" -> BP_MaxIndex(s)
      [] s.kind = "bp2" -> BP2_MaxIndex(s)
      [] OTHER -> DenseStore_MaxIndex(s)

\* IsEmpty() of the paginated stores
Store_IsEmpty(s) == IF s.kind = "bp" THEN BP_IsEmpty(s) ELSE BP2_IsEmpty(s)

\* a store of the type of s, as constructed
Store_New(s) ==
    IF s.kind = "bp" THEN NewBufferedPaginatedStore
    ELSE BP2_NewBufferedPaginatedStore

\* a second store of the type of s, as constructed: the second call of
\* newUnlimitedMemoryPool returns another pool
Store_NewOther(s) ==
    IF s.kind = "bp" THEN NewBufferedPaginatedStore
    ELSE [BP2_NewBufferedPaginatedStore
              EXCEPT !.memory = @ + 1, !.buffer.memory = @ + 1]

\* Encode and DecodeAndMergeWith of the paginated stores
Store_Encode(s) == IF s.kind = "bp" THEN BP_Encode(s) ELSE BP2_Encode(s)

Store_DecodeAndMergeWith(s, b, encodingMode) ==
    IF s.kind = "bp" THEN BP_DecodeAndMergeWithBytes(s, b, encodingMode)
    ELSE BP2_DecodeAndMergeWithBytes(s, b, encodingMode)

\* decodeBins(t, s, b) of the tests: flag after flag, every block is decoded
\* and merged into s until b is empty; err tells that a byte is no flag of a
\* bin encoding or that DecodeAndMergeWith returned an error or panicked
RECURSIVE decodeBins(_, _)
decodeBins(s, b) ==
    IF b = <<>> THEN [s |-> s, err |-> FALSE, whole |-> TRUE]
    ELSE IF Head(b) \notin {256 + BinEncodingIndexDeltas,
                            256 + BinEncodingContiguousCounts}
    THEN [s |-> s, err |-> TRUE, whole |-> TRUE]
    ELSE LET r == Store_DecodeAndMergeWith(s, Tail(b), Head(b) - 256)
             next == decodeBins(r.s, r.rest)
         IN IF r.err \/ r.s.panicked
            THEN [s |-> r.s, err |-> TRUE, whole |-> r.whole]
            ELSE [next EXCEPT !.whole = @ /\ r.whole]

Store_KeyAtRank(s, rankNum, rankDen) ==
    IF s.kind = "bp" THEN BP_KeyAtRank(s, rankNum, rankDen)
    ELSE DenseStore_KeyAtRank(s, rankNum, rankDen)

\* the sum of the counts of a sequence of bins
SumBins(bins) ==
    SumOver([i \in 1..Len(bins) |-> bins[i].count], 1..Len(bins))

\* the sum of the counts of a history
SumAdded(h) == SumOver(h, {i \in DOMAIN h : h[i] # 0})

\* the bins of a history, normalized: ascending indexes, no zero count
RECURSIVE NormalizedBins(_, _)
NormalizedBins(h, P) ==
    IF P = {} THEN <<>>
    ELSE LET idx == CHOOSE j \in P : \A k \in P : j <= k
         IN <<[index |-> idx, count |-> h[idx]]>> \o NormalizedBins(h, P \ {idx})

Normalized(h) == NormalizedBins(h, {i \in DOMAIN h : h[i] # 0})

----------------------------------------------------------------------------
(* DDSketch over a LogarithmicMapping *)
(* The mapping is built with relativeAccuracy = 1/3, so that gamma =          *)
(* (1 + 1/3) / (1 - 1/3) = 2: Index(v) = floor(log2(v)) and Value(i) =         *)
(* 2^i * 4/3. The values drawn are integers that are no power of two, which   *)
(* the float64 logarithm of the source indexes exactly. A value that          *)
(* getValueAtQuantile returns is held as [sign, index], standing for          *)
(* sign * Value(index).                                                       *)

gamma == 2

\* a faulty variant: the logarithm is rounded up
Index_roundedUp(value) ==
    CHOOSE i \in 1..30 : gamma ^ (i - 1) < value /\ value <= gamma ^ i

\* LogarithmicMapping.Index(value), value > 0
Index(value) == CHOOSE i \in 0..30 : gamma ^ i <= value /\ value < gamma ^ (i + 1)

\* a * gamma^i <= b, for integers a > 0 and b, and any index i
PowLeq(i, a, b) ==
    /\ b > 0
    /\ IF i >= 0 THEN i <= 24 /\ a * gamma ^ i <= b
       ELSE -i > 24 \/ a <= b * gamma ^ (-i)

\* a LogarithmicMapping of gamma = 2 ^ gammaLog2: relativeAccuracy is
\* (gamma - 1) / (gamma + 1) and multiplier is 1 / ln(gamma)
NewLogarithmicMapping(gammaLog2) == [gammaLog2 |-> gammaLog2]

\* withinTolerance on relativeAccuracy and on multiplier, both functions of gamma
LogarithmicMapping_Equals(m, o) == m.gammaLog2 = o.gammaLog2

\* floor(ln(value) * m.multiplier), value > 0
LogarithmicMapping_Index(m, value) == Index(value) \div m.gammaLog2

\* float64 arguments: a finite value is an integer, Inf lies beyond every finite
\* value, and NaN is a value apart, every comparison with it being false
Inf == 2 ^ 30

NaN == 2 ^ 30 + 1

FloatLess(a, b) == a # NaN /\ b # NaN /\ a < b

\* the bounds of the indexable range: the largest is a stand-in for
\* exp(expOverflow) / (1 + relativeAccuracy), above the values that are added
\* in range; the smallest, about 2^(-1022), lies below every positive integer
LogarithmicMapping_MaxIndexableValue(m) == 2 ^ 24

LogarithmicMapping_MinIndexableValue(m) == 0

\* the nil error
ErrNil == "nil"

NewDDSketch(indexMapping, positiveValueStore, negativeValueStore) ==
    [IndexMapping |-> indexMapping,
     positiveValueStore |-> positiveValueStore,
     negativeValueStore |-> negativeValueStore,
     zeroCount |-> 0]

\* the error returned by AddWithCount(value, count)
DDSketch_AddWithCount_error(s, value, count) ==
    IF \/ FloatLess(value, -LogarithmicMapping_MaxIndexableValue(s.IndexMapping))
       \/ FloatLess(LogarithmicMapping_MaxIndexableValue(s.IndexMapping), value)
    THEN "The input value is outside the range that is tracked by the sketch."
    ELSE IF count < 0 THEN "The count cannot be negative."
    ELSE ErrNil

\* whether AddWithCount(value, count) returns an error
DDSketch_AddWithCount_err(s, value, count) ==
    DDSketch_AddWithCount_error(s, value, count) # ErrNil

\* AddWithCount(value, count): the sketch afterwards
DDSketch_AddWithCount(s, value, count) ==
    IF DDSketch_AddWithCount_err(s, value, count) THEN s
    ELSE IF FloatLess(LogarithmicMapping_MinIndexableValue(s.IndexMapping), value)
    THEN [s EXCEPT !.positiveValueStore =
             Store_AddBin(@, [index |-> LogarithmicMapping_Index(s.IndexMapping, value),
                              count |-> count])]
    ELSE IF FloatLess(value, -LogarithmicMapping_MinIndexableValue(s.IndexMapping))
    THEN [s EXCEPT !.negativeValueStore =
             Store_AddBin(@, [index |-> LogarithmicMapping_Index(s.IndexMapping, -value),
                              count |-> count])]
    ELSE [s EXCEPT !.zeroCount = @ + count]

DDSketch_Add(s, value) == DDSketch_AddWithCount(s, value, 1)

DDSketch_getCount(s) ==
    s.zeroCount + Store_TotalCount(s.positiveValueStore)
        + Store_TotalCount(s.negativeValueStore)

\* Copy(): the mapping and a copy of each store; zeroCount is not among the
\* fields of the composite literal and is the zero value in the copy
DDSketch_Copy(s) ==
    [IndexMapping |-> s.IndexMapping,
     positiveValueStore |-> Store_Copy(s.positiveValueStore),
     negativeValueStore |-> Store_Copy(s.negativeValueStore),
     zeroCount |-> 0]

\* a faulty variant: the buffer of the argument is handed over to the receiver
Store_MergeArg_drained(s, o) ==
    IF o.kind = "bp" THEN [o EXCEPT !.buffer = <<>>] ELSE o

\* the argument o after s.MergeWith(o): Bins() sorts the buffer of a paginated
\* store, and a paginated receiver reads the buffer of a paginated argument
\* without pages as it is
Store_MergeArg(s, o) ==
    IF o.kind = "bp" /\ ~(s.kind = "bp" /\ Len(o.pages) = 0)
    THEN BP_sortBuffer(o) ELSE o

\* whether MergeWith(other) returns an error
DDSketch_MergeWith_err(s, other) ==
    ~LogarithmicMapping_Equals(s.IndexMapping, other.IndexMapping)

\* the error returned by MergeWith(other)
DDSketch_MergeWith_error(s, other) ==
    IF DDSketch_MergeWith_err(s, other)
    THEN "Cannot merge sketches with different index mappings."
    ELSE ErrNil

\* the end of MergeWith(other), positive being the positive store after its
\* merge: a panic in that merge ends the call
DDSketch_mergeRest(s, other, positive) ==
    IF positive.panicked
    THEN [s EXCEPT !.positiveValueStore = positive]
    ELSE [s EXCEPT !.positiveValueStore = positive,
                   !.negativeValueStore =
                       Store_MergeWith(@, other.negativeValueStore),
                   !.zeroCount = @ + other.zeroCount]

\* a faulty variant: the mappings are compared after the stores are merged
DDSketch_MergeWith_late(s, other) ==
    [s EXCEPT !.positiveValueStore =
                  Store_MergeWith(@, other.positiveValueStore),
              !.negativeValueStore =
                  Store_MergeWith(@, other.negativeValueStore)]

\* MergeWith(other): the receiver afterwards
DDSketch_MergeWith(s, other) ==
    IF DDSketch_MergeWith_err(s, other) THEN s
    ELSE DDSketch_mergeRest(s, other,
                            Store_MergeWith(s.positiveValueStore,
                                            other.positiveValueStore))

\* MergeWith(other): the argument afterwards
DDSketch_MergeArg(s, other) ==
    IF DDSketch_MergeWith_err(s, other) THEN other
    ELSE IF Store_MergeWith(s.positiveValueStore,
                            other.positiveValueStore).panicked
    THEN [other EXCEPT !.positiveValueStore =
                           Store_MergeArg(s.positiveValueStore, @)]
    ELSE [other EXCEPT !.positiveValueStore =
                           Store_MergeArg(s.positiveValueStore, @),
                       !.negativeValueStore =
                           Store_MergeArg(s.negativeValueStore, @)]

\* getValueAtQuantile(quantile) for quantile = qNum / qDen in [0, 1], on a
\* sketch that is not empty
DDSketch_getValueAtQuantile(s, qNum, qDen) ==
    LET count == DDSketch_getCount(s)
        rankNum == qNum * (count - 1)
        negativeValueCount == Store_TotalCount(s.negativeValueStore)
    IN IF rankNum < negativeValueCount * qDen
       THEN [sign |-> -1,
             index |-> Store_KeyAtRank(s.negativeValueStore,
                           (negativeValueCount - 1) * qDen - rankNum, qDen)]
       ELSE IF rankNum < (s.zeroCount + negativeValueCount) * qDen
       THEN [sign |-> 0, index |-> 0]
       ELSE [sign |-> 1,
             index |-> Store_KeyAtRank(s.positiveValueStore,
                           rankNum - (s.zeroCount + negativeValueCount) * qDen,
                           qDen)]

\* the stores afterwards: KeyAtRank sorts the buffer of a paginated store
DDSketch_afterQuantile(s) ==
    [s EXCEPT !.positiveValueStore =
                  IF @.kind = "bp" THEN BP_sortBuffer(@) ELSE @,
              !.negativeValueStore =
                  IF @.kind = "bp" THEN BP_sortBuffer(@) ELSE @]

\* Dataset: the values held as value -> number of occurrences
\* d.Values[p] of the sorted values, 0 <= p < Count
Dataset_at(d, p) ==
    LET V == {v \in DOMAIN d : SumOver(d, {x \in DOMAIN d : x <= v}) > p}
    IN CHOOSE v \in V : \A w \in V : v <= w

Dataset_Count(d) == SumOver(d, DOMAIN d)

\* LowerQuantile(q), UpperQuantile(q) for q = qNum / qDen
Dataset_LowerQuantile(d, qNum, qDen) ==
    Dataset_at(d, (qNum * (Dataset_Count(d) - 1)) \div qDen)

Dataset_UpperQuantile(d, qNum, qDen) ==
    Dataset_at(d, -((-(qNum * (Dataset_Count(d) - 1))) \div qDen))

\* MinRank(v), MaxRank(v)
Dataset_MinRank(d, v) == SumOver(d, {x \in DOMAIN d : x < v})

Dataset_MaxRank(d, v) == SumOver(d, {x \in DOMAIN d : x <= v})

----------------------------------------------------------------------------
(* GKArray *)
(* Entry.g and Entry.delta are uint32: a value is held by its two's           *)
(* complement reading, a negative number x standing for 2^32 + x, so that +   *)
(* and - are the wrapping ones of the source as long as magnitudes are small; *)
(* min and max of an empty sketch (+Inf, -Inf) are held as 0 and never read.  *)

\* epsilon is held as its inverse epsilonInv, a power of two (the float64
\* products of the source are exact); the sketches are built with
\* epsilon = 1 / EpsilonInv unless said otherwise
EpsilonInv == 4

\* x <= y for uint32 x and a small y
ULe(x, y) == x >= 0 /\ x <= y

\* min and max are +Inf and -Inf in the source; they are read only when
\* count > 0, and GK_Add replaces them at count = 0 as the comparison with an
\* infinity does
NewGKArray(epsilonInv) ==
    [epsilonInv |-> epsilonInv, entries |-> <<>>, incoming |-> <<>>,
     min |-> 0, max |-> 0, count |-> 0, sum |-> 0, panicked |-> FALSE]

\* int64(s.epsilon * float64(s.count - 1)), a conversion that truncates
spread(s) == IF s.count <= 0 THEN 0 ELSE (s.count - 1) \div s.epsilonInv

Entry(v, g, delta) == [v |-> v, g |-> g, delta |-> delta]

\* a faulty variant: the incoming entries are left in the order of arrival
SortEntries_unsorted(es) == es

\* sort.Sort(incomingEntries): the slices sorted here are short enough for
\* sort.Sort to be its insertion sort, which keeps the order of the entries of
\* equal v
RECURSIVE SortEntries(_)
SortEntries(es) ==
    IF es = <<>> THEN <<>>
    ELSE LET e == es[Len(es)]
             front == SortEntries(SubSeq(es, 1, Len(es) - 1))
             k == Cardinality({i \in 1..Len(front) : front[i].v <= e.v})
         IN SubSeq(front, 1, k) \o <<e>> \o SubSeq(front, k + 1, Len(front))

\* the loop of compressWithIncoming (i, j 0-based)
RECURSIVE GK_mergeLoop(_, _, _, _, _, _)
GK_mergeLoop(inc, ent, i, j, merged, removalThreshold) ==
    IF ~(i < Len(inc) \/ j < Len(ent)) THEN merged
    ELSE IF j = Len(ent)
    THEN IF i + 1 < Len(inc)
            /\ ULe(inc[i + 1].g + inc[i + 2].g, removalThreshold)
         THEN GK_mergeLoop([inc EXCEPT ![i + 2].g = @ + inc[i + 1].g], ent,
                           i + 1, j, merged, removalThreshold)
         ELSE GK_mergeLoop(inc, ent, i + 1, j, Append(merged, inc[i + 1]),
                           removalThreshold)
    ELSE IF i < Len(inc) /\ inc[i + 1].v < ent[j + 1].v
    THEN IF ULe(inc[i + 1].g + ent[j + 1].g + ent[j + 1].delta, removalThreshold)
         THEN GK_mergeLoop(inc, [ent EXCEPT ![j + 1].g = @ + inc[i + 1].g],
                           i + 1, j, merged, removalThreshold)
         ELSE LET e == [inc[i + 1] EXCEPT
                           !.delta = ent[j + 1].g + ent[j + 1].delta - inc[i + 1].g]
              IN GK_mergeLoop(inc, ent, i + 1, j, Append(merged, e),
                              removalThreshold)
    ELSE IF j + 1 < Len(ent)
            /\ ULe(ent[j + 1].g + ent[j + 2].g + ent[j + 2].delta, removalThreshold)
         THEN GK_mergeLoop(inc, [ent EXCEPT ![j + 2].g = @ + ent[j + 1].g],
                           i, j + 1, merged, removalThreshold)
         ELSE GK_mergeLoop(inc, ent, i, j + 1, Append(merged, ent[j + 1]),
                           removalThreshold)

RECURSIVE EntriesOf(_)
EntriesOf(incoming) ==
    IF incoming = <<>> THEN <<>>
    ELSE <<Entry(Head(incoming), 1, 0)>> \o EntriesOf(Tail(incoming))

\* a faulty variant: entries are folded up to a threshold that is 2 beyond
GK_compressWithIncoming_loose(s, incomingEntries) ==
    LET inc == SortEntries(incomingEntries \o EntriesOf(s.incoming))
        removalThreshold == 2 * spread(s) + 2
    IN [s EXCEPT !.entries = GK_mergeLoop(inc, s.entries, 0, 0, <<>>,
                                          removalThreshold),
                 !.incoming = <<>>]

GK_compressWithIncoming(s, incomingEntries) ==
    LET inc == SortEntries(incomingEntries \o EntriesOf(s.incoming))
        removalThreshold == 2 * spread(s)
    IN [s EXCEPT !.entries = GK_mergeLoop(inc, s.entries, 0, 0, <<>>,
                                          removalThreshold),
                 !.incoming = <<>>]

GK_Add(s, v) ==
    LET s1 == [s EXCEPT !.count = @ + 1,
                        !.sum = @ + v,
                        !.incoming = Append(@, v),
                        !.min = IF s.count = 0 \/ v < s.min THEN v ELSE s.min,
                        !.max = IF s.count = 0 \/ v > s.max THEN v ELSE s.max]
    IN IF s1.count % (s.epsilonInv + 1) = 0
       THEN GK_compressWithIncoming(s1, <<>>) ELSE s1

\* the sketch after Quantile, which compresses the incoming values
GK_afterQuantile(s) ==
    IF s.count = 0 \/ Len(s.incoming) = 0 THEN s
    ELSE GK_compressWithIncoming(s, <<>>)

\* gSum + int64(delta) after the entries 1..i, or -1 when it is beyond 2^31
GK_gSumDelta(entries, i) ==
    IF \E k \in 1..i : entries[k].g < 0 \/ entries[i].delta < 0 THEN -1
    ELSE SumOver([k \in 1..i |-> entries[k].g], 1..i) + entries[i].delta

\* Quantile(q) for q = qNum / qDen in [0, 1], on a sketch that is not empty
GK_Quantile(s, qNum, qDen) ==
    LET c == GK_afterQuantile(s)
        rank == (qNum * (c.count - 1)) \div qDen + 1
        B == {i \in 1..Len(c.entries) :
                 LET x == GK_gSumDelta(c.entries, i)
                 IN x < 0 \/ x > rank + spread(c)}
        i == IF B = {} THEN Len(c.entries)
             ELSE (CHOOSE b \in B : \A k \in B : b <= k) - 1
    IN IF i = 0 THEN c.min ELSE c.entries[i].v

GK_Copy(s, o) ==
    [s EXCEPT !.entries = o.entries,
              !.incoming = s.incoming \o o.incoming,
              !.min = o.min, !.max = o.max, !.count = o.count, !.sum = o.sum]

\* a faulty variant: the last band weighs spread, not spread + 1
GK_incomingEntries_shortLast(o) ==
    LET n == o.entries[1].g + o.entries[1].delta - spread(o) - 1
        first == IF n # 0 THEN <<Entry(o.min, n, 0)>> ELSE <<>>
        middle == [i \in 1..(Len(o.entries) - 1) |->
                      Entry(o.entries[i].v,
                            o.entries[i + 1].g + o.entries[i + 1].delta
                                - o.entries[i].delta, 0)]
        last == <<Entry(o.entries[Len(o.entries)].v, spread(o), 0)>>
    IN first \o Slice(middle) \o last

\* the entries Merge extracts from the compressed o
GK_incomingEntries(o) ==
    LET n == o.entries[1].g + o.entries[1].delta - spread(o) - 1
        first == IF n # 0 THEN <<Entry(o.min, n, 0)>> ELSE <<>>
        middle == [i \in 1..(Len(o.entries) - 1) |->
                      Entry(o.entries[i].v,
                            o.entries[i + 1].g + o.entries[i + 1].delta
                                - o.entries[i].delta, 0)]
        last == <<Entry(o.entries[Len(o.entries)].v, spread(o) + 1, 0)>>
    IN first \o Slice(middle) \o last

\* s.Merge(o): the receiver afterwards; Merge panics on different epsilons
GK_Merge(s, o) ==
    IF o.epsilonInv # s.epsilonInv THEN [s EXCEPT !.panicked = TRUE]
    ELSE IF o.count = 0 THEN s
    ELSE IF s.count = 0 THEN GK_Copy(s, o)
    ELSE LET o1 == GK_compressWithIncoming(o, <<>>)
             s1 == [s EXCEPT !.count = @ + o.count,
                             !.sum = @ + o.sum,
                             !.min = IF o.min < s.min THEN o.min ELSE s.min,
                             !.max = IF o.max > s.max THEN o.max ELSE s.max]
         IN GK_compressWithIncoming(s1, GK_incomingEntries(o1))

\* isValid(s) of the tests: the sum of int64(g) over the entries plus
\* len(incoming) is count; a g beyond 2^31 makes the sum differ from the
\* small counts of the model
isValid(s) ==
    /\ s.count >= 0
    /\ Len(s.entries) = 0 => Len(s.incoming) = s.count
    /\ \A k \in 1..Len(s.entries) : s.entries[k].g >= 0
    /\ SumOver([k \in 1..Len(s.entries) |-> s.entries[k].g], 1..Len(s.entries))
           + Len(s.incoming) = s.count

\* s.Merge(o): the argument afterwards
GK_MergeArg(s, o) ==
    IF o.epsilonInv # s.epsilonInv \/ o.count = 0 \/ s.count = 0 THEN o
    ELSE GK_compressWithIncoming(o, <<>>)

----------------------------------------------------------------------------
(* The store specification: a receiver store and a second store that is     *)
(* merged into it, with the history of what was added to each               *)

----------------------------------------------------------------------------
(* DogSketch and its Store (dogsketch/store.go): bins of uint64 over the     *)
(* keys minKey..maxKey, at most binLimit of them, the lowest collapsed       *)

\* NewStore(binLimit): binLimit / 16 bins, at least 1
Dog_NewStore(binLimit) ==
    [bins |-> Zeros(max(1, binLimit \div 16)), count |-> 0, minKey |-> 0,
     maxKey |-> 0, binLimit |-> binLimit, panicked |-> FALSE]

Dog_growLeft(s, key) ==
    IF s.minKey < key \/ Len(s.bins) >= s.binLimit THEN s
    ELSE IF s.maxKey - key >= s.binLimit
    THEN [s EXCEPT !.bins = Zeros(s.binLimit - s.maxKey + s.minKey - 1) \o @,
                   !.minKey = s.maxKey - s.binLimit + 1]
    ELSE [s EXCEPT !.bins = Zeros(s.minKey - key) \o @, !.minKey = key]

\* growRight(key); s.bins[0] of a slice made with length 0 is out of range
Dog_growRight(s, key) ==
    IF s.maxKey > key THEN s
    ELSE IF key - s.maxKey >= s.binLimit
    THEN IF s.binLimit <= 0 THEN Panic(s)
         ELSE [s EXCEPT !.bins = [Zeros(s.binLimit) EXCEPT ![1] = s.count],
                        !.maxKey = key,
                        !.minKey = key - s.binLimit + 1]
    ELSE IF key - s.minKey >= s.binLimit
    THEN LET n == SumOver(s.bins,
                     1..(min(key - s.binLimit, s.maxKey) - s.minKey + 1))
             bins == SliceFrom(s.bins, key - s.minKey - s.binLimit + 1)
                         \o Zeros(key - s.maxKey)
         IN [s EXCEPT !.bins = [bins EXCEPT ![1] = @ + n],
                      !.maxKey = key,
                      !.minKey = key - s.binLimit + 1]
    ELSE [s EXCEPT !.bins = @ \o Zeros(key - s.maxKey), !.maxKey = key]

\* add(key)
Dog_add(s, key) ==
    LET s1 == IF s.count = 0
              THEN [s EXCEPT !.maxKey = key, !.minKey = key - Len(s.bins) + 1]
              ELSE s
        s2 == IF key < s1.minKey THEN Dog_growLeft(s1, key)
              ELSE IF key > s1.maxKey THEN Dog_growRight(s1, key)
              ELSE s1
        idx == max(key - s2.minKey, 0)
    IN IF s2.panicked \/ idx >= Len(s2.bins) THEN Panic(s2)
       ELSE [s2 EXCEPT !.bins[idx + 1] = @ + 1, !.count = @ + 1]

Dog_compress(s) ==
    IF Len(s.bins) <= s.binLimit THEN s
    ELSE LET n == SumOver(s.bins, 1..(s.maxKey - s.minKey - s.binLimit + 1))
             bins == SliceFrom(s.bins, s.maxKey - s.minKey - s.binLimit + 1)
         IN IF Len(bins) = 0 THEN Panic(s)
            ELSE [s EXCEPT !.bins = [bins EXCEPT ![1] = @ + n],
                           !.minKey = s.maxKey - s.binLimit + 1]

\* makeCopy(): the Store returned has the bins, minKey, maxKey and count of s;
\* binLimit is not set and has the zero value
Dog_makeCopy(s) ==
    [bins |-> s.bins, count |-> s.count, minKey |-> s.minKey,
     maxKey |-> s.maxKey, binLimit |-> 0, panicked |-> FALSE]

\* merge(o)
Dog_merge(s, o) ==
    IF Len(o.bins) = 0 THEN s
    ELSE IF Len(s.bins) = 0 THEN Dog_makeCopy(o)
    ELSE LET minKey == min(s.minKey, o.minKey)
             maxKey == max(s.maxKey, o.maxKey)
             tmpBins == CopyAt(Zeros(maxKey - minKey + 1), s.minKey - minKey, s.bins)
         IN Dog_compress(
                [s EXCEPT !.bins = Slice([i \in 1..(maxKey - minKey + 1) |->
                                      tmpBins[i]
                                      + (IF i - (o.minKey - minKey) \in 1..Len(o.bins)
                                         THEN o.bins[i - (o.minKey - minKey)]
                                         ELSE 0)]),
                          !.minKey = minKey,
                          !.maxKey = maxKey,
                          !.count = @ + o.count])

\* NewDogSketch(c), for a Config of binLimit bins
NewDogSketch(binLimit) == [store |-> Dog_NewStore(binLimit), count |-> 0]

\* Add(v), key being Key(v)
DogSketch_Add(s, key) ==
    [s EXCEPT !.store = Dog_add(@, key), !.count = @ + 1]

\* Merge(o): an empty receiver takes a copy of the store of o
DogSketch_Merge(s, o) ==
    IF o.count = 0 THEN s
    ELSE IF s.count = 0
    THEN [s EXCEPT !.store = Dog_makeCopy(o.store), !.count = o.count]
    ELSE [s EXCEPT !.store = Dog_merge(@, o.store), !.count = @ + o.count]

----------------------------------------------------------------------------
(* The blocks of the memory pool (memory.go, buffer.go and the store of      *)
(* unnamed/part_011, with the blocks held by identity)                       *)
(* A world w holds the heap, the pool and the two stores that take their     *)
(* blocks from the pool: w.heap[id] is the content of block id, pageWords    *)
(* words of 8 bytes (the indexes of a page of a buffer or the counts of a    *)
(* page of a store); a slice of a block is [blk, len], it starts at the      *)
(* first word of the block and its capacity is the block, as all the slices  *)
(* that the code keeps do; w.pool is p.blocks; w.handed lists what acquire   *)
(* returned during the operation under way; w.s is a store and w.o the store *)
(* made from it by Copy. lastPage is [kind |-> "nil"], [kind |-> "empty"]    *)
(* (a pointer to an empty slice of capacity 0) or [kind |-> "slot", slot |-> *)
(* k], a pointer to b.pages[k - 1]. s.pages is held with its backing array:  *)
(* arr has cap(s.pages) entries, a block or 0 for nil, of which the first    *)
(* len are the slice.                                                        *)

\* the words of a block: 1 << (blockSizeLog2 - 3)
pageWords == 2 ^ (defaultPageSizeLog2 - intSizeLog2)

NilPtr == [kind |-> "nil", slot |-> 0]

EmptyPtr == [kind |-> "empty", slot |-> 0]

SlotPtr(k) == [kind |-> "slot", slot |-> k]

\* a faulty variant: the block is put in the pool as the slice it was used as
memoryPool_release_keepsLen(w, b) ==
    [w EXCEPT !.pool = Append(@, b)]

\* release(b): cap(b) is the block size for every slice of a block, and
\* b[:cap(b)] goes to the pool
memoryPool_release(w, b) ==
    [w EXCEPT !.pool = Append(@, [blk |-> b.blk, len |-> pageWords])]

\* what acquire() hands out, as it is at that moment, and whether it comes
\* from the pool
Handed(heap, b, reused) ==
    [blk |-> b.blk, len |-> b.len,
     zero |-> \A i \in 1..pageWords : heap[b.blk][i] = 0,
     reused |-> reused]

\* acquire(): the world afterwards and the slice returned; the last block of
\* the pool with the bytes of its length set to 0, or a new block
memoryPool_acquire(w) ==
    IF Len(w.pool) > 0
    THEN LET b == w.pool[Len(w.pool)]
             heap == [w.heap EXCEPT ![b.blk] =
                         Slice([i \in 1..pageWords |->
                                   IF i <= b.len THEN 0 ELSE @[i]])]
         IN [w |-> [w EXCEPT !.pool = SubSeq(@, 1, Len(@) - 1),
                             !.heap = heap,
                             !.handed = Append(@, Handed(heap, b, TRUE))],
             b |-> b]
    ELSE LET b == [blk |-> Len(w.heap) + 1, len |-> pageWords]
             heap == Append(w.heap, Zeros(pageWords))
         IN [w |-> [w EXCEPT !.heap = heap,
                             !.handed = Append(@, Handed(heap, b, FALSE))],
             b |-> b]

\* newBuffer(memory)
Blk_newBuffer == [pages |-> <<>>, lastPage |-> EmptyPtr, sortedLen |-> 0]

\* the store t of the world panics
Blk_panic(w, t) == [w EXCEPT ![t].panicked = TRUE]

\* tryAdding(index) on the buffer of store t: the world afterwards and
\* whether the index was added; a nil lastPage is dereferenced
Blk_tryAdding(w, t, index) ==
    LET b == w[t].buffer
        k == b.lastPage.slot
    IN IF b.lastPage.kind = "nil" THEN [w |-> Blk_panic(w, t), ok |-> FALSE]
       ELSE IF b.lastPage.kind = "slot" /\ b.pages[k].len < pageWords
       THEN [w |-> [w EXCEPT ![t].buffer.pages[k].len = @ + 1,
                             !.heap[b.pages[k].blk][b.pages[k].len + 1] = index],
             ok |-> TRUE]
       ELSE [w |-> w, ok |-> FALSE]

\* the end of add(index), when tryAdding has refused: a new page
Blk_addPage(w, t, index) ==
    LET a == memoryPool_acquire(w)
        n == Len(w[t].buffer.pages) + 1
    IN [a.w EXCEPT ![t].buffer.pages = Append(@, [blk |-> a.b.blk, len |-> 1]),
                   ![t].buffer.lastPage = SlotPtr(n),
                   !.heap[a.b.blk][1] = index]

\* add(index)
Blk_add(w, t, index) ==
    LET r == Blk_tryAdding(w, t, index)
    IN IF r.ok \/ r.w[t].panicked THEN r.w ELSE Blk_addPage(w, t, index)

\* Len()
Blk_Len(b) ==
    IF Len(b.pages) = 0 THEN 0
    ELSE (Len(b.pages) - 1) * pageWords + b.pages[Len(b.pages)].len

\* the indexes of the buffer b in the order of forEach
RECURSIVE Blk_flat(_, _, _)
Blk_flat(heap, b, from) ==
    IF from > Len(b.pages) THEN <<>>
    ELSE SubSeq(heap[b.pages[from].blk], 1, b.pages[from].len)
             \o Blk_flat(heap, b, from + 1)

\* the loop of trim: the pages from position from (1-based) on are released
RECURSIVE Blk_releasePages(_, _, _)
Blk_releasePages(w, pages, from) ==
    IF from > Len(pages) THEN w
    ELSE Blk_releasePages(memoryPool_release(w, pages[from]), pages, from + 1)

\* trim(l) on the buffer of store t
Blk_trim(w, t, l) ==
    LET b == w[t].buffer
        pageIndex == l \div pageWords
        lineIndex == l % pageWords
        pages == IF lineIndex # 0
                 THEN [b.pages EXCEPT ![pageIndex + 1].len = lineIndex]
                 ELSE b.pages
        trimmedPagesLen == IF lineIndex # 0 THEN pageIndex + 1 ELSE pageIndex
        w1 == Blk_releasePages(w, pages, trimmedPagesLen + 1)
    IN [w1 EXCEPT ![t].buffer =
           [pages |-> SubSeq(pages, 1, trimmedPagesLen),
            lastPage |-> IF trimmedPagesLen = 0 THEN EmptyPtr
                         ELSE SlotPtr(trimmedPagesLen),
            sortedLen |-> min(b.sortedLen, l)]]

\* the loop of copy(): page i of b and those after it are copied into blocks
\* acquired from the pool, after the pages copied already
RECURSIVE Blk_copyPages(_, _, _, _)
Blk_copyPages(w, b, i, copied) ==
    IF i > Len(b.pages) THEN [w |-> w, pages |-> copied]
    ELSE LET a == memoryPool_acquire(w)
             page == b.pages[i]
         IN Blk_copyPages(
                [a.w EXCEPT !.heap[a.b.blk] =
                    Slice([j \in 1..pageWords |->
                              IF j <= page.len THEN w.heap[page.blk][j]
                              ELSE @[j]])],
                b, i + 1, Append(copied, [blk |-> a.b.blk, len |-> page.len]))

\* copy(): the world afterwards and the buffer returned, whose lastPage and
\* sortedLen are not set
Blk_copy(w, b) ==
    LET r == Blk_copyPages(w, b, 1, <<>>)
    IN [w |-> r.w,
        b |-> [pages |-> r.pages, lastPage |-> NilPtr, sortedLen |-> 0]]

\* no slice, no element
NoSlice == [blk |-> 0, len |-> 0]

NoElt == [blk |-> 0, line |-> 0, oob |-> FALSE]

\* offsetIterator(descending, offset) over the pages of a buffer
Blk_offsetIterator(pages, descending, offset) ==
    LET pageIndex == offset \div pageWords
    IN [pageIndex |-> pageIndex,
        lineIndex |-> offset % pageWords,
        curPage |-> IF pageIndex >= 0 /\ pageIndex < Len(pages)
                    THEN pages[pageIndex + 1] ELSE NoSlice,
        inc |-> IF descending THEN -1 ELSE 1]

\* offset()
Blk_offset(it) == it.pageIndex * pageWords + it.lineIndex

\* the element &curPage[lineIndex], out of bounds when lineIndex is not
\* below the length of the page
Blk_elt(curPage, lineIndex) ==
    [blk |-> curPage.blk, line |-> lineIndex,
     oob |-> lineIndex < 0 \/ lineIndex >= curPage.len]

\* next(): the iterator afterwards and the element pointed at, NoElt for nil
Blk_next(pages, it) ==
    IF it.lineIndex < 0 \/ it.lineIndex >= it.curPage.len
    THEN IF it.pageIndex + it.inc < 0 \/ it.pageIndex + it.inc >= Len(pages)
         THEN [it |-> it, elt |-> NoElt]
         ELSE LET curPage == pages[it.pageIndex + it.inc + 1]
                  lineIndex == ((1 - it.inc) \div 2) * (pageWords - 1)
              IN [it |-> [pageIndex |-> it.pageIndex + it.inc,
                          lineIndex |-> lineIndex + it.inc,
                          curPage |-> curPage,
                          inc |-> it.inc],
                  elt |-> Blk_elt(curPage, lineIndex)]
    ELSE [it |-> [it EXCEPT !.lineIndex = @ + it.inc],
          elt |-> Blk_elt(it.curPage, it.lineIndex)]

\* the value an element holds
Blk_read(heap, elt) == heap[elt.blk][elt.line + 1]

\* the heap after value is stored in an element
Blk_write(heap, elt, value) == [heap EXCEPT ![elt.blk][elt.line + 1] = value]

\* sort.Ints(page)
Blk_sortPage(heap, page) ==
    [heap EXCEPT ![page.blk] =
        SortInts(SubSeq(@, 1, page.len)) \o SubSeq(@, page.len + 1, pageWords)]

\* copy(dst, src[:n])
Blk_copyInto(heap, dst, src, n) ==
    [heap EXCEPT ![dst.blk] =
        Slice([i \in 1..pageWords |->
                  IF i <= min(dst.len, n) THEN heap[src.blk][i] ELSE @[i]])]

\* a faulty variant of the test of the merge: the element of nextPage is
\* always taken
Blk_readIsGreater_never(heap, elt, nextPage, nextPageLineIndex) == FALSE

\* *readItNext > nextPage[nextPageLineIndex]
Blk_readIsGreater(heap, elt, nextPage, nextPageLineIndex) ==
    Blk_read(heap, elt) > heap[nextPage.blk][nextPageLineIndex + 1]

\* one pass of the merge loop of sort(): st holds the heap, the two
\* iterators, the element readItNext, nextPageLineIndex, whether the loop is
\* left and whether a nil or out-of-bounds element was used
Blk_mergeStep(pages, nextPage, st, writeNext) ==
    IF writeNext.elt = NoElt \/ writeNext.elt.oob \/ st.readItNext.oob
    THEN [st EXCEPT !.done = TRUE, !.panicked = TRUE]
    ELSE IF Blk_readIsGreater(st.heap, st.readItNext, nextPage,
                              st.nextPageLineIndex)
    THEN LET readNext == Blk_next(pages, st.readIt)
             heap == Blk_write(st.heap, writeNext.elt,
                               Blk_read(st.heap, st.readItNext))
         IN [heap |-> IF readNext.elt = NoElt
                      THEN Blk_copyInto(heap, pages[1], nextPage,
                                        st.nextPageLineIndex + 1)
                      ELSE heap,
             readIt |-> readNext.it,
             writeIt |-> writeNext.it,
             readItNext |-> readNext.elt,
             nextPageLineIndex |-> st.nextPageLineIndex,
             done |-> readNext.elt = NoElt,
             panicked |-> FALSE]
    ELSE [heap |-> Blk_write(st.heap, writeNext.elt,
                             st.heap[nextPage.blk][st.nextPageLineIndex + 1]),
          readIt |-> st.readIt,
          writeIt |-> writeNext.it,
          readItNext |-> st.readItNext,
          nextPageLineIndex |-> st.nextPageLineIndex - 1,
          done |-> st.nextPageLineIndex - 1 < 0,
          panicked |-> FALSE]

\* the merge loop of sort()
RECURSIVE Blk_merge(_, _, _)
Blk_merge(pages, nextPage, st) ==
    IF st.done THEN st
    ELSE Blk_merge(pages, nextPage,
                   Blk_mergeStep(pages, nextPage, st,
                                 Blk_next(pages, st.writeIt)))

\* the start of the merge loop: readItNext := readIt.next(), which is nil
\* when there is no page to read
Blk_mergeStart(heap, pages, nextPage, readFirst, writeIt) ==
    [heap |-> heap,
     readIt |-> readFirst.it,
     writeIt |-> writeIt,
     readItNext |-> readFirst.elt,
     nextPageLineIndex |-> nextPage.len - 1,
     done |-> readFirst.elt = NoElt,
     panicked |-> readFirst.elt = NoElt]

\* the pass of the loop of sort() for a page that is not the first: a is what
\* acquire() gave for the new page, in which and before which the sorted
\* indexes and the indexes of nextPage are merged, from the last to the first
Blk_sortMerge(a, t, sortedPagesLen, nextPage) ==
    LET pages == [a.w[t].buffer.pages EXCEPT ![sortedPagesLen + 1] =
                     [blk |-> a.b.blk, len |-> nextPage.len]]
        st == Blk_merge(pages, nextPage,
                  Blk_mergeStart(
                      a.w.heap, pages, nextPage,
                      Blk_next(pages,
                               Blk_offsetIterator(pages, TRUE,
                                   sortedPagesLen * pageWords - 1)),
                      Blk_offsetIterator(pages, TRUE,
                          sortedPagesLen * pageWords + nextPage.len - 1)))
    IN IF st.panicked
       THEN Blk_panic([a.w EXCEPT !.heap = st.heap,
                                  ![t].buffer.pages = pages], t)
       ELSE memoryPool_release(
                [a.w EXCEPT !.heap = st.heap,
                            ![t].buffer.pages = pages,
                            ![t].buffer.sortedLen =
                                sortedPagesLen * pageWords + nextPage.len],
                nextPage)

\* one pass of the loop of sort(), nextPage being the page the sorted prefix
\* ends in or before
Blk_sortPass(w, t, sortedPagesLen, nextPage) ==
    IF sortedPagesLen = 0
    THEN [w EXCEPT !.heap = Blk_sortPage(w.heap, nextPage),
                   ![t].buffer.sortedLen = nextPage.len]
    ELSE Blk_sortMerge(
             memoryPool_acquire([w EXCEPT !.heap = Blk_sortPage(w.heap, nextPage)]),
             t, sortedPagesLen, nextPage)

\* sort() on the buffer of store t
RECURSIVE Blk_sort(_, _)
Blk_sort(w, t) ==
    IF w[t].panicked \/ ~(w[t].buffer.sortedLen < Blk_Len(w[t].buffer)) THEN w
    ELSE Blk_sort(
             Blk_sortPass(w, t, w[t].buffer.sortedLen \div pageWords,
                          w[t].buffer.pages[(w[t].buffer.sortedLen \div pageWords) + 1]),
             t)

\* compact(countPageIndex, consumer) after its sort(): the indexes kept are
\* written from the first element of the buffer on, in their order, and the
\* buffer is trimmed to them
Blk_writeKept(heap, pages, kept) ==
    Slice([id \in 1..Len(heap) |->
              IF \E p \in 1..Len(pages) : pages[p].blk = id
              THEN LET p == CHOOSE q \in 1..Len(pages) : pages[q].blk = id
                   IN Slice([i \in 1..pageWords |->
                                IF (p - 1) * pageWords + i <= Len(kept)
                                THEN kept[(p - 1) * pageWords + i]
                                ELSE heap[id][i]])
              ELSE heap[id]])

\* minSliceCap
minSliceCap == 8

\* sliceCap(len): the multiple of 64 >> ptrSizeLog2 = 8 at or above len
sliceCap(len) == ((len + 7) \div 8) * 8

Blk_NewBufferedPaginatedStore ==
    [buffer |-> Blk_newBuffer,
     lastCompactionBufferLen |-> 0,
     pages |-> [arr |-> <<>>, len |-> 0],
     minPageIndex |-> maxInt,
     panicked |-> FALSE]

\* existingPage(pageIndex): the block of the page, 0 for nil
Blk_existingPage(s, pageIndex) ==
    IF pageIndex >= s.minPageIndex /\ pageIndex < s.minPageIndex + s.pages.len
    THEN s.pages.arr[pageIndex - s.minPageIndex + 1]
    ELSE 0

\* s.pages after page() has given it newPagesLen entries, the entries it had
\* shifted by shift: a new array when the capacity does not do, else the
\* same array, whose entries beyond the length are taken as they are
Blk_extended(pages, newPagesLen, shift) ==
    IF newPagesLen > Len(pages.arr)
    THEN [arr |-> Slice([i \in 1..sliceCap(newPagesLen) |->
                            IF i > shift /\ i - shift <= pages.len
                            THEN pages.arr[i - shift] ELSE 0]),
          len |-> newPagesLen]
    ELSE [arr |-> Slice([i \in 1..Len(pages.arr) |->
                            IF shift > 0 /\ i <= shift THEN 0
                            ELSE IF shift > 0 /\ i <= newPagesLen
                            THEN pages.arr[i - shift]
                            ELSE pages.arr[i]]),
          len |-> newPagesLen]

\* the end of page(): the block acquired is the page at pageIndex
Blk_setPage(a, t, pageIndex) ==
    [w |-> [a.w EXCEPT ![t].pages.arr[pageIndex - a.w[t].minPageIndex + 1] =
                           a.b.blk],
     page |-> a.b.blk]

\* page(pageIndex, ensureExists) on store t: the world afterwards and the
\* block of the page returned, 0 for nil
Blk_page(w, t, pageIndex, ensureExists) ==
    IF ~ensureExists \/ Blk_existingPage(w[t], pageIndex) # 0
    THEN [w |-> w, page |-> Blk_existingPage(w[t], pageIndex)]
    ELSE LET s == w[t]
             shift == IF s.minPageIndex # maxInt /\ pageIndex < s.minPageIndex
                      THEN s.minPageIndex - pageIndex ELSE 0
             newPagesLen ==
                 IF s.minPageIndex = maxInt THEN 1
                 ELSE IF pageIndex < s.minPageIndex THEN shift + s.pages.len
                 ELSE IF pageIndex >= s.minPageIndex + s.pages.len
                 THEN pageIndex - s.minPageIndex + 1
                 ELSE s.pages.len
         IN Blk_setPage(
                memoryPool_acquire(
                    [w EXCEPT ![t].pages = Blk_extended(s.pages, newPagesLen, shift),
                              ![t].minPageIndex =
                                  IF s.minPageIndex = maxInt THEN pageIndex
                                  ELSE s.minPageIndex - shift]),
                t, pageIndex)

\* page[s.lineIndex(index)] += count
Blk_increment(w, page, index, count) ==
    [w EXCEPT !.heap[page][(index % pageWords) + 1] = @ + count]

\* the consumer of compact() applied to the section sorted[pos..end]:
\* page[s.lineIndex(index)]++ for each of its indexes
Blk_consume(w, page, sorted, pos, end) ==
    [w EXCEPT !.heap[page] =
        Slice([l \in 1..pageWords |->
                  @[l] + Cardinality({j \in pos..end :
                                         sorted[j] % pageWords = l - 1})])]

\* the last position of the section of sorted that starts at pos: the
\* indexes that fall on one page of counts
SectionEnd(sorted, pos) ==
    LET D == {j \in pos..Len(sorted) :
                 sorted[j] \div pageWords # sorted[pos] \div pageWords}
    IN IF D = {} THEN Len(sorted)
       ELSE (CHOOSE j \in D : \A k \in D : j <= k) - 1

\* what the store does with a section: r is what page() returned for it
Blk_section(r, sorted, pos, end, kept) ==
    IF r.page = 0
    THEN [w |-> r.w, kept |-> kept \o SubSeq(sorted, pos, end)]
    ELSE [w |-> Blk_consume(r.w, r.page, sorted, pos, end), kept |-> kept]

\* the loop of buffer.compact with the consumer of the store, over the
\* sorted indexes from position pos: the world and the indexes kept
RECURSIVE Blk_compactLoop(_, _, _, _)
Blk_compactLoop(c, t, sorted, pos) ==
    IF pos > Len(sorted) THEN c
    ELSE Blk_compactLoop(
             Blk_section(
                 Blk_page(c.w, t, sorted[pos] \div pageWords,
                          pageWords * (2 ^ float64sizeLog2)
                              <= (SectionEnd(sorted, pos) - pos + 1)
                                     * (2 ^ intSizeLog2)),
                 sorted, pos, SectionEnd(sorted, pos), c.kept),
             t, sorted, SectionEnd(sorted, pos) + 1)

\* the end of compact(): the indexes kept are written over the first
\* elements, the buffer is trimmed and its length is recorded
Blk_compactEnd(c, t) ==
    LET w1 == Blk_trim([c.w EXCEPT !.heap =
                           Blk_writeKept(c.w.heap, c.w[t].buffer.pages, c.kept)],
                       t, Len(c.kept))
    IN [w1 EXCEPT ![t].lastCompactionBufferLen = Blk_Len(w1[t].buffer)]

\* compact() of the store t, on the world after s.buffer.sort()
Blk_compactSorted(w, t) ==
    IF w[t].panicked THEN w
    ELSE Blk_compactEnd(
             Blk_compactLoop([w |-> w, kept |-> <<>>], t,
                             Blk_flat(w.heap, w[t].buffer, 1), 1),
             t)

Blk_compact(w, t) == Blk_compactSorted(Blk_sort(w, t), t)

\* the end of Add(index), after the compaction if there was one
Blk_addAfterCompaction(w, t, index) ==
    IF w[t].panicked THEN w
    ELSE IF Blk_existingPage(w[t], index \div pageWords) # 0
    THEN Blk_increment(w, Blk_existingPage(w[t], index \div pageWords), index, 1)
    ELSE Blk_add(w, t, index)

\* the end of Add(index) when no page exists for it: tried is what
\* tryAdding returned
Blk_addBuffered(w, t, index, tried) ==
    IF tried.ok \/ tried.w[t].panicked THEN tried.w
    ELSE Blk_addAfterCompaction(
             IF Blk_Len(w[t].buffer)
                    >= w[t].lastCompactionBufferLen + 2 * pageWords
             THEN Blk_compact(w, t) ELSE w,
             t, index)

\* Add(index) on store t
Blk_Add(w, t, index) ==
    IF Blk_existingPage(w[t], index \div pageWords) # 0
    THEN Blk_increment(w, Blk_existingPage(w[t], index \div pageWords), index, 1)
    ELSE Blk_addBuffered(w, t, index, Blk_tryAdding(w, t, index))

\* the end of AddWithCount for a count that is neither 0 nor 1
Blk_addToPage(r, index, count) == Blk_increment(r.w, r.page, index, count)

\* AddWithCount(index, count) on store t
Blk_AddWithCount(w, t, index, count) ==
    IF count = 0 THEN w
    ELSE IF count = 1 THEN Blk_Add(w, t, index)
    ELSE Blk_addToPage(Blk_page(w, t, index \div pageWords, TRUE), index, count)

\* the loop of Clear() over s.pages, from position i (1-based)
RECURSIVE Blk_releaseCounts(_, _, _)
Blk_releaseCounts(w, t, i) ==
    IF i > w[t].pages.len THEN w
    ELSE IF w[t].pages.arr[i] = 0 THEN Blk_releaseCounts(w, t, i + 1)
    ELSE Blk_releaseCounts(
             memoryPool_release([w EXCEPT ![t].pages.arr[i] = 0],
                                [blk |-> w[t].pages.arr[i], len |-> pageWords]),
             t, i + 1)

\* the end of Clear(): s.pages[:0:min(cap(s.pages), minSliceCap)]
Blk_trimPages(w, t) ==
    [w EXCEPT ![t].pages =
                  [arr |-> SubSeq(@.arr, 1, min(Len(@.arr), minSliceCap)),
                   len |-> 0],
              ![t].minPageIndex = maxInt]

\* Clear() on store t
Blk_Clear(w, t) == Blk_trimPages(Blk_releaseCounts(Blk_trim(w, t, 0), t, 1), t)

\* the loop of Copy() over s.pages, from position i: c holds the world and
\* the array of the copy
RECURSIVE Blk_copyCounts(_, _, _)
Blk_copyCounts(c, pages, i) ==
    IF i > pages.len THEN c
    ELSE IF pages.arr[i] = 0 THEN Blk_copyCounts(c, pages, i + 1)
    ELSE LET a == memoryPool_acquire(c.w)
         IN Blk_copyCounts(
                [w |-> [a.w EXCEPT !.heap[a.b.blk] = c.w.heap[pages.arr[i]]],
                 arr |-> [c.arr EXCEPT ![i] = a.b.blk]],
                pages, i + 1)

\* the store that Copy() returns, bc being what s.buffer.copy() returned
Blk_copied(s, arr, bc) ==
    [bc.w EXCEPT !.o = [buffer |-> bc.b,
                        lastCompactionBufferLen |-> s.lastCompactionBufferLen,
                        pages |-> [arr |-> arr, len |-> s.pages.len],
                        minPageIndex |-> s.minPageIndex,
                        panicked |-> FALSE]]

\* the end of Copy(): the buffer is copied after the pages
Blk_copyBuffer(c, s) == Blk_copied(s, c.arr, Blk_copy(c.w, s.buffer))

\* w.o = w.s.Copy()
Blk_Copy(w) ==
    Blk_copyBuffer(
        Blk_copyCounts([w |-> w, arr |-> Zeros(sliceCap(w.s.pages.len))],
                       w.s.pages, 1),
        w.s)

\* s.Add(index) for the indexes at positions i to j, in their order, up to
\* the one that panics: the first half of them, then the second
RECURSIVE Blk_addRange(_, _, _, _, _)
Blk_addRange(w, t, indexes, i, j) ==
    IF i > j \/ w[t].panicked THEN w
    ELSE IF i = j THEN Blk_Add(w, t, indexes[i])
    ELSE Blk_addRange(Blk_addRange(w, t, indexes, i, (i + j) \div 2),
                      t, indexes, ((i + j) \div 2) + 1, j)

\* the first loop of MergeWith: s.Add(oIndex) for the indexes of o.buffer
Blk_addAll(w, t, indexes, i) == Blk_addRange(w, t, indexes, i, Len(indexes))

\* sPage[lineIndex] += oPage[lineIndex] for the lines of oPage; a nil oPage
\* has no lines
Blk_addPage2(r, oPage) ==
    IF oPage = 0 THEN r.w
    ELSE [r.w EXCEPT !.heap[r.page] =
             Slice([l \in 1..pageWords |-> @[l] + r.w.heap[oPage][l]])]

\* the second loop of MergeWith, over the pages of o from oPageOffset
RECURSIVE Blk_mergePages(_, _, _, _)
Blk_mergePages(w, t, u, oPageOffset) ==
    IF oPageOffset >= w[u].pages.len THEN w
    ELSE Blk_mergePages(
             Blk_addPage2(Blk_page(w, t, w[u].minPageIndex + oPageOffset, TRUE),
                          w[u].pages.arr[oPageOffset + 1]),
             t, u, oPageOffset + 1)

\* the second loop, unless an Add of the first has panicked
Blk_mergeCounts(w, t, u) ==
    IF w[t].panicked THEN w ELSE Blk_mergePages(w, t, u, 0)

\* w[t].MergeWith(w[u]), two stores of the same pool
Blk_MergeWith(w, t, u) ==
    Blk_mergeCounts(Blk_addAll(w, t, Blk_flat(w.heap, w[u].buffer, 1), 1), t, u)

\* the first loop of Reweight: the counts of the pages are multiplied
Blk_scaled(w, t, weight) ==
    [w EXCEPT !.heap =
        Slice([id \in 1..Len(w.heap) |->
                  IF \E i \in 1..w[t].pages.len : w[t].pages.arr[i] = id
                  THEN Slice([l \in 1..pageWords |-> w.heap[id][l] * weight])
                  ELSE w.heap[id]])]

\* the second loop of Reweight: s.AddWithCount(index, w) for the buffer
RECURSIVE Blk_addAllWithCount(_, _, _, _, _, _)
Blk_addAllWithCount(w, t, indexes, i, j, count) ==
    IF i > j \/ w[t].panicked THEN w
    ELSE IF i = j THEN Blk_AddWithCount(w, t, indexes[i], count)
    ELSE Blk_addAllWithCount(
             Blk_addAllWithCount(w, t, indexes, i, (i + j) \div 2, count),
             t, indexes, ((i + j) \div 2) + 1, j, count)

\* the end of Reweight: s.buffer.trim(0)
Blk_trimAll(w, t) == IF w[t].panicked THEN w ELSE Blk_trim(w, t, 0)

\* Reweight(weight) on store t
Blk_Reweight(w, t, weight) ==
    IF weight <= 0 \/ weight = 1 THEN w
    ELSE Blk_trimAll(
             Blk_addAllWithCount(Blk_scaled(w, t, weight), t,
                                 Blk_flat(w.heap, w[t].buffer, 1), 1,
                                 Blk_Len(w[t].buffer), weight),
             t)

----------------------------------------------------------------------------
\* n indexes, from first, step apart
Run(n, first, step) == Slice([i \in 1..n |-> first + (i - 1) * step])

\* the decoded contents of the index-delta blocks given to DecodeAndMergeWith
DecodeInputs ==
    {Run(70, 0, 0),
     Run(31, 1, 0) \o Run(16, 40, 0) \o Run(16, 41, 0) \o Run(3, 70, 0)}

\* the blocks of contiguous counts given to DecodeAndMergeWith: the first
\* index, the stride and the counts; the blocks cross the bounds of the pages
\* of 32 counts upwards and downwards, with short and long strides
ChunkInputs ==
    {[start |-> 0, stride |-> 1, counts |-> <<1, 2>>],
     [start |-> -1, stride |-> 1, counts |-> <<3, 1, 2>>],
     [start |-> 1, stride |-> -1, counts |-> <<2, 1, 3>>],
     [start |-> -1, stride |-> 2, counts |-> <<1, 1>>],
     [start |-> 1, stride |-> -2, counts |-> <<2, 3>>],
     [start |-> 41, stride |-> 37, counts |-> <<1, 2>>],
     [start |-> 41, stride |-> -37, counts |-> <<2, 1>>]}

\* the bins a block stands for: the i-th count at start + i * stride
ChunkBins(chunk) ==
    Slice([i \in 1..Len(chunk.counts) |->
              [index |-> chunk.start + (i - 1) * chunk.stride,
               count |-> chunk.counts[i]]])

\* the payload of the block, as TestDecode writes it after the flag
ChunkBytes(chunk) ==
    EncodeUvarint64(Len(chunk.counts)) \o EncodeVarint64(chunk.start)
        \o EncodeVarint64(chunk.stride) \o EncodeCounts(chunk.counts)

HistoryIndexes ==
    IndexSet \cup UNION {{d[i] : i \in 1..Len(d)} : d \in DecodeInputs}
        \cup UNION {{ChunkBins(c)[i].index : i \in 1..Len(c.counts)} :
                        c \in ChunkInputs}

VARIABLES
    store,        \* the receiver
    other,        \* the argument of MergeWith
    added,        \* history: index -> sum of the counts contributed to store
    otherAdded,   \* history: index -> sum of the counts contributed to other
    ctorMaxNumBins, \* history: the maxNumBins store was constructed with
    ops,          \* number of operations done
    sketch,       \* a DDSketch
    sketchData,   \* history: the Dataset of the values added to sketch
    sketchOther,  \* the argument of DDSketch.MergeWith
    sketchErr,    \* the error returned by the last call on sketch
    gk,           \* a GKArray, the receiver of Merge
    gkOther,      \* a GKArray, the argument of Merge
    gkData,       \* history: the Dataset of the values gk holds
    gkOtherData,  \* history: the Dataset of the values gkOther holds
    gkMerged,     \* history: Merge was used to fill gk
    program,      \* the program that runs: on the stores, the DDSketches or the GKArrays
    producer,     \* the goroutine started by Bins(), and the channel it sends on
    consumer,     \* the caller of Bins(), which receives from the channel
    dog,          \* a DogSketch, the receiver of Merge
    dogOther,     \* a DogSketch, the argument of Merge
    loop,         \* the loop of MergeWith or DecodeAndMergeWith that store runs
    mem           \* the heap, the memory pool and the two stores that share it

storeVars == <<store, other, added, otherAdded, ctorMaxNumBins>>

sketchVars == <<sketch, sketchData, sketchOther, sketchErr>>

gkVars == <<gk, gkOther, gkData, gkOtherData, gkMerged>>

chanVars == <<producer, consumer>>

dogVars == <<dog, dogOther>>

\* the variables of the programs that the stores, the DDSketches and the
\* GKArrays take no part in
sideVars == <<chanVars, dogVars, loop, mem>>

vars == <<storeVars, ops, sketchVars, gkVars, program, sideVars>>

\* values drawn by DDSketch.Add: negative, zero and positive, in bins 1, 2, 3
SketchValueSet == {-5, -3, 0, 3, 12}

\* values drawn by GKArray.Add, for the receiver and for the argument of Merge
GKValueSet == {1, 2, 3}
GKOtherValueSet == {1, 2, 3}

\* the quantiles asked for, as <<numerator, denominator>>
Quantiles == {<<0, 1>>, <<1, 4>>, <<1, 2>>, <<3, 4>>, <<1, 1>>}

NoBins == [i \in HistoryIndexes |-> 0]

NoData(S) == [v \in S |-> 0]

Dataset_Add(d, v, count) ==
    [x \in DOMAIN d |-> IF x = v THEN d[x] + count ELSE d[x]]

Dataset_Merge(d, o) == [x \in DOMAIN d |-> d[x] + o[x]]

\* the sketches as constructed
SketchIdle ==
    /\ sketch = NewDDSketch(NewLogarithmicMapping(1), NewDenseStore, NewDenseStore)
    /\ sketchData = NoData(SketchValueSet)
    /\ sketchOther = sketch
    /\ sketchErr = ErrNil

GKIdle ==
    /\ gk = NewGKArray(EpsilonInv)
    /\ gkOther = NewGKArray(EpsilonInv)
    /\ gkData = NoData(GKValueSet)
    /\ gkOtherData = NoData(GKValueSet)
    /\ gkMerged = FALSE

\* s := NewBufferedPaginatedStore() of unnamed/part_011 and o := s.Copy()
NewWorld ==
    Blk_Copy([heap |-> <<>>, pool |-> <<>>, handed |-> <<>>,
              call |-> <<"none", "s">>,
              prev |-> [sortedLen |-> 0, len |-> 0],
              s |-> Blk_NewBufferedPaginatedStore,
              o |-> Blk_NewBufferedPaginatedStore])

MemIdle == mem = NewWorld

\* no loop of MergeWith or DecodeAndMergeWith under way
LoopIdle == loop = [pc |-> "none", rest |-> <<>>, taken |-> <<>>]

\* the bin limit of the Config the DogSketches are built from
DogBinLimit == 3

\* the DogSketches as constructed
DogIdle ==
    /\ dog = NewDogSketch(DogBinLimit)
    /\ dogOther = NewDogSketch(DogBinLimit)

\* no call of Bins() under way
ChanIdle ==
    /\ producer = [pc |-> "none", pending |-> <<>>, closed |-> FALSE]
    /\ consumer = [reading |-> FALSE, received |-> <<>>, done |-> FALSE]

StoreIdle ==
    /\ store = NewDenseStore
    /\ other = NewDenseStore
    /\ added = NoBins
    /\ otherAdded = NoBins
    /\ ctorMaxNumBins = 0

\* the receiver and the argument, as constructed
StorePairs ==
    {<<NewDenseStore, NewDenseStore>>,
     <<NewCollapsingLowestDenseStore(3), NewCollapsingLowestDenseStore(3)>>,
     <<NewCollapsingLowestDenseStore(3), NewCollapsingLowestDenseStore(130)>>,
     <<NewCollapsingLowestDenseStore(130), NewCollapsingLowestDenseStore(3)>>,
     <<NewCollapsingLowestDenseStore(3), NewDenseStore>>,
     <<NewCollapsingHighestDenseStore(3), NewCollapsingHighestDenseStore(3)>>,
     <<NewCollapsingHighestDenseStore(3), NewCollapsingHighestDenseStore(130)>>,
     <<NewCollapsingHighestDenseStore(3), NewCollapsingLowestDenseStore(3)>>,
     <<NewBufferedPaginatedStore, NewBufferedPaginatedStore>>,
     <<NewDenseStore, NewBufferedPaginatedStore>>,
     <<NewBufferedPaginatedStore, NewDenseStore>>}

Init ==
    /\ program = "store"
    /\ ChanIdle
    /\ DogIdle
    /\ LoopIdle
    /\ MemIdle
    /\ \E pair \in StorePairs : store = pair[1] /\ other = pair[2]
    /\ added = NoBins
    /\ otherAdded = NoBins
    /\ ctorMaxNumBins = IF store.kind \in {"lowest", "highest"}
                        THEN store.maxNumBins ELSE 0
    /\ ops = 0
    /\ SketchIdle
    /\ GKIdle

Running == ops < MaxOps /\ ~store.panicked /\ ~other.panicked

\* store.Add(index)
Add(index) ==
    /\ Running
    /\ store' = Store_Add(store, index)
    /\ added' = IF store'.panicked THEN added
                ELSE [i \in HistoryIndexes |->
                         IF i = index THEN added[i] + 1 ELSE added[i]]
    /\ ops' = ops + 1
    /\ UNCHANGED <<other, otherAdded, ctorMaxNumBins, program>>
    /\ UNCHANGED <<sketchVars, gkVars, program, sideVars>>

\* store.AddBin(Bin{index, count})
AddBin(index, count) ==
    /\ Running
    /\ store' = Store_AddBin(store, [index |-> index, count |-> count])
    /\ added' = IF store'.panicked THEN added
                ELSE [i \in HistoryIndexes |->
                         IF i = index THEN added[i] + count ELSE added[i]]
    /\ ops' = ops + 1
    /\ UNCHANGED <<other, otherAdded, ctorMaxNumBins, program>>
    /\ UNCHANGED <<sketchVars, gkVars, program, sideVars>>

\* other.Add(index)
OtherAdd(index) ==
    /\ Running
    /\ other' = Store_Add(other, index)
    /\ otherAdded' = IF other'.panicked THEN otherAdded
                     ELSE [i \in HistoryIndexes |->
                              IF i = index THEN otherAdded[i] + 1
                              ELSE otherAdded[i]]
    /\ ops' = ops + 1
    /\ UNCHANGED <<store, added, ctorMaxNumBins, program>>
    /\ UNCHANGED <<sketchVars, gkVars, program, sideVars>>

\* other.AddBin(Bin{index, count})
OtherAddBin(index, count) ==
    /\ Running
    /\ other' = Store_AddBin(other, [index |-> index, count |-> count])
    /\ otherAdded' = IF other'.panicked THEN otherAdded
                     ELSE [i \in HistoryIndexes |->
                              IF i = index THEN otherAdded[i] + count
                              ELSE otherAdded[i]]
    /\ ops' = ops + 1
    /\ UNCHANGED <<store, added, ctorMaxNumBins, program>>
    /\ UNCHANGED <<sketchVars, gkVars, program, sideVars>>

\* store.MergeWith(other); other.Bins() sorts the buffer of a paginated other
MergeWith ==
    /\ Running
    /\ store' = Store_MergeWith(store, other)
    /\ other' = Store_MergeArg(store, other)
    /\ added' = IF store'.panicked THEN added
                ELSE [i \in HistoryIndexes |-> added[i] + otherAdded[i]]
    /\ ops' = ops + 1
    /\ UNCHANGED <<otherAdded, ctorMaxNumBins, program>>
    /\ UNCHANGED <<sketchVars, gkVars, program, sideVars>>

\* store.DecodeAndMergeWith(b, enc.BinEncodingIndexDeltas)
DecodeAndMergeWith(indexes) ==
    /\ Running
    /\ store.kind = "bp"
    /\ store' = BP_DecodeAndMergeWith(store, indexes)
    /\ added' = [i \in HistoryIndexes |->
                    added[i] + Cardinality({j \in 1..Len(indexes) : indexes[j] = i})]
    /\ ops' = ops + 1
    /\ UNCHANGED <<other, otherAdded, ctorMaxNumBins, program>>
    /\ UNCHANGED <<sketchVars, gkVars, program, sideVars>>

\* store.compact()
Compact ==
    /\ Running
    /\ store.kind = "bp"
    /\ store' = BP_compact(store)
    /\ ops' = ops + 1
    /\ UNCHANGED <<other, added, otherAdded, ctorMaxNumBins, program>>
    /\ UNCHANGED <<sketchVars, gkVars, program, sideVars>>

\* store.Bins(), read to the end: the call sorts the buffer
Bins ==
    /\ Running
    /\ store.kind = "bp"
    /\ store' = BP_sortBuffer(store)
    /\ ops' = ops + 1
    /\ UNCHANGED <<other, added, otherAdded, ctorMaxNumBins, program>>
    /\ UNCHANGED <<sketchVars, gkVars, program, sideVars>>

Next ==
    \/ \E index \in IndexSet : Add(index)
    \/ \E index \in IndexSet, count \in CountSet : AddBin(index, count)
    \/ \E index \in IndexSet : OtherAdd(index)
    \/ \E index \in IndexSet, count \in OtherCountSet : OtherAddBin(index, count)
    \/ MergeWith
    \/ \E indexes \in DecodeInputs : DecodeAndMergeWith(indexes)
    \/ Compact
    \/ Bins

Spec == Init /\ [][Next]_vars

\* the behaviours where the receiver is filled by Add only
NextAdd == \E index \in IndexSet : Add(index)

SpecAdd == Init /\ [][NextAdd]_vars

\* the behaviours where the receiver is filled by Add and AddBin only
NextAddBin ==
    \/ \E index \in IndexSet : Add(index)
    \/ \E index \in IndexSet, count \in CountSet : AddBin(index, count)

SpecAddBin == Init /\ [][NextAddBin]_vars

\* the behaviours where collapsing stores of one type and one maxNumBins, each
\* new or holding one index added by Add, are filled by Add and merged
SameTypePairs ==
    {<<NewCollapsingLowestDenseStore(n), NewCollapsingLowestDenseStore(n)>> :
        n \in {3, 130}}
    \cup {<<NewCollapsingHighestDenseStore(n), NewCollapsingHighestDenseStore(n)>> :
             n \in {3, 130}}

InitMerge ==
    /\ program = "store"
    /\ ChanIdle
    /\ DogIdle
    /\ LoopIdle
    /\ MemIdle
    /\ \E pair \in SameTypePairs :
           /\ \/ store = pair[1] /\ added = NoBins
              \/ \E i \in IndexSet :
                     /\ store = Store_Add(pair[1], i)
                     /\ added = [NoBins EXCEPT ![i] = 1]
           /\ \/ other = pair[2] /\ otherAdded = NoBins
              \/ \E i \in IndexSet :
                     /\ other = Store_Add(pair[2], i)
                     /\ otherAdded = [NoBins EXCEPT ![i] = 1]
    /\ ctorMaxNumBins = store.maxNumBins
    /\ ops = 0
    /\ SketchIdle
    /\ GKIdle

NextMerge ==
    \/ \E index \in IndexSet : OtherAdd(index)
    \/ MergeWith

SpecMerge == InitMerge /\ [][NextMerge]_vars

----------------------------------------------------------------------------
(* The sketch specification: a DDSketch over two stores of one type, with    *)
(* the Dataset of what was added                                             *)

MaxSketchOps == 4

\* counts drawn by DDSketch.AddWithCount
SketchCountSet == {0, 2}

InitSketch ==
    /\ program = "ddsketch"
    /\ ChanIdle
    /\ DogIdle
    /\ LoopIdle
    /\ MemIdle
    /\ \E st \in {NewDenseStore, NewBufferedPaginatedStore} :
           sketch = NewDDSketch(NewLogarithmicMapping(1), st, st)
    /\ sketchData = NoData(SketchValueSet)
    /\ sketchOther = sketch
    /\ sketchErr = ErrNil
    /\ ops = 0
    /\ StoreIdle
    /\ GKIdle

SketchRunning == ops < MaxSketchOps

\* sketch.Add(value)
SketchAdd(value) ==
    /\ SketchRunning
    /\ sketch' = DDSketch_Add(sketch, value)
    /\ sketchErr' = DDSketch_AddWithCount_error(sketch, value, 1)
    /\ sketchData' = IF sketchErr' # ErrNil \/ value \notin DOMAIN sketchData
                     THEN sketchData ELSE Dataset_Add(sketchData, value, 1)
    /\ ops' = ops + 1
    /\ UNCHANGED <<sketchOther, storeVars, gkVars, program, sideVars>>

\* sketch.AddWithCount(value, count)
SketchAddWithCount(value, count) ==
    /\ SketchRunning
    /\ sketch' = DDSketch_AddWithCount(sketch, value, count)
    /\ sketchErr' = DDSketch_AddWithCount_error(sketch, value, count)
    /\ sketchData' = IF sketchErr' # ErrNil \/ value \notin DOMAIN sketchData
                     THEN sketchData ELSE Dataset_Add(sketchData, value, count)
    /\ ops' = ops + 1
    /\ UNCHANGED <<sketchOther, storeVars, gkVars, program, sideVars>>

\* sketch.GetValueAtQuantile(q), on a sketch that is not empty
SketchGetValueAtQuantile ==
    /\ SketchRunning
    /\ DDSketch_getCount(sketch) > 0
    /\ sketch' = DDSketch_afterQuantile(sketch)
    /\ sketchErr' = ErrNil
    /\ ops' = ops + 1
    /\ UNCHANGED <<sketchData, sketchOther, storeVars, gkVars, program, sideVars>>

NextSketch ==
    \/ \E value \in SketchValueSet : SketchAdd(value)
    \/ \E value \in SketchValueSet, count \in SketchCountSet :
           SketchAddWithCount(value, count)
    \/ SketchGetValueAtQuantile

SpecSketch == InitSketch /\ [][NextSketch]_vars

----------------------------------------------------------------------------
(* The paginated stores with Copy and Clear: other is a copy of store *)
InitCopy ==
    /\ program = "store"
    /\ ChanIdle
    /\ DogIdle
    /\ LoopIdle
    /\ MemIdle
    /\ store \in {NewBufferedPaginatedStore, BP2_NewBufferedPaginatedStore}
    /\ other = Store_Copy(store)
    /\ added = NoBins
    /\ otherAdded = NoBins
    /\ ctorMaxNumBins = 0
    /\ ops = 0
    /\ SketchIdle
    /\ GKIdle

\* other = store.Copy()
Copy ==
    /\ Running
    /\ other' = Store_Copy(store)
    /\ otherAdded' = added
    /\ ops' = ops + 1
    /\ UNCHANGED <<store, added, ctorMaxNumBins, program>>
    /\ UNCHANGED <<sketchVars, gkVars, program, sideVars>>

\* store.Clear()
Clear ==
    /\ Running
    /\ store' = Store_Clear(store)
    /\ added' = NoBins
    /\ ops' = ops + 1
    /\ UNCHANGED <<other, otherAdded, ctorMaxNumBins, program>>
    /\ UNCHANGED <<sketchVars, gkVars, program, sideVars>>

\* other.Clear()
OtherClear ==
    /\ Running
    /\ other' = Store_Clear(other)
    /\ otherAdded' = NoBins
    /\ ops' = ops + 1
    /\ UNCHANGED <<store, added, ctorMaxNumBins, program>>
    /\ UNCHANGED <<sketchVars, gkVars, program, sideVars>>

\* other.MergeWith(store)
OtherMergeWith ==
    /\ Running
    /\ other' = Store_MergeWith(other, store)
    /\ store' = Store_MergeArg(other, store)
    /\ otherAdded' = IF other'.panicked THEN otherAdded
                     ELSE [i \in HistoryIndexes |-> otherAdded[i] + added[i]]
    /\ ops' = ops + 1
    /\ UNCHANGED <<added, ctorMaxNumBins, program>>
    /\ UNCHANGED <<sketchVars, gkVars, program, sideVars>>

NextCopy ==
    \/ \E index \in IndexSet : Add(index)
    \/ \E index \in IndexSet, count \in CountSet : AddBin(index, count)
    \/ \E index \in IndexSet : OtherAdd(index)
    \/ \E index \in IndexSet, count \in OtherCountSet : OtherAddBin(index, count)
    \/ MergeWith
    \/ OtherMergeWith
    \/ Copy
    \/ Clear
    \/ OtherClear

SpecCopy == InitCopy /\ [][NextCopy]_vars

----------------------------------------------------------------------------
(* The paginated stores with Encode and DecodeAndMergeWith: other is the     *)
(* store that the bytes of store are decoded into                            *)
InitEncode ==
    /\ program = "store"
    /\ ChanIdle
    /\ DogIdle
    /\ LoopIdle
    /\ MemIdle
    /\ store \in {NewBufferedPaginatedStore, BP2_NewBufferedPaginatedStore}
    /\ other = Store_NewOther(store)
    /\ added = NoBins
    /\ otherAdded = NoBins
    /\ ctorMaxNumBins = 0
    /\ ops = 0
    /\ SketchIdle
    /\ GKIdle

\* store.DecodeAndMergeWith(b, enc.BinEncodingContiguousCounts), b holding the
\* payload of a block; the blocks whose bytes the store reads as counts that
\* are no whole numbers are left out
DecodeContiguousCounts(chunk) ==
    /\ Running
    /\ LET r == Store_DecodeAndMergeWith(store, ChunkBytes(chunk),
                                         BinEncodingContiguousCounts)
       IN r.whole /\ store' = r.s
    /\ added' = [i \in HistoryIndexes |->
                    added[i] + SumBins(SelectSeq(ChunkBins(chunk),
                                                 LAMBDA bin : bin.index = i))]
    /\ ops' = ops + 1
    /\ UNCHANGED <<other, otherAdded, ctorMaxNumBins, program>>
    /\ UNCHANGED <<sketchVars, gkVars, program, sideVars>>

\* store.Encode(&encoded, t); other = a new store; decodeBins(t, other, encoded)
EncodeDecode ==
    /\ Running
    /\ other' = decodeBins(Store_NewOther(store), Store_Encode(store)).s
    /\ otherAdded' = added
    /\ ops' = ops + 1
    /\ UNCHANGED <<store, added, ctorMaxNumBins, program>>
    /\ UNCHANGED <<sketchVars, gkVars, program, sideVars>>

NextEncode ==
    \/ \E index \in IndexSet : Add(index)
    \/ \E index \in IndexSet, count \in CountSet : AddBin(index, count)
    \/ \E chunk \in ChunkInputs : DecodeContiguousCounts(chunk)
    \/ EncodeDecode

SpecEncode == InitEncode /\ [][NextEncode]_vars

----------------------------------------------------------------------------
(* The paginated stores with Reweight                                        *)

\* the weights given to Reweight: refused, 1, and two that scale
WeightSet == {0, 1, 2, 3}

InitReweight ==
    /\ program = "store"
    /\ ChanIdle
    /\ DogIdle
    /\ LoopIdle
    /\ MemIdle
    /\ store \in {NewBufferedPaginatedStore, BP2_NewBufferedPaginatedStore}
    /\ other = Store_New(store)
    /\ added = NoBins
    /\ otherAdded = NoBins
    /\ ctorMaxNumBins = 0
    /\ ops = 0
    /\ SketchIdle
    /\ GKIdle

\* store.Reweight(w)
Reweight(w) ==
    /\ Running
    /\ store' = Store_Reweight(store, w)
    /\ added' = IF Store_Reweight_err(w) THEN added
                ELSE [i \in HistoryIndexes |-> added[i] * w]
    /\ ops' = ops + 1
    /\ UNCHANGED <<other, otherAdded, ctorMaxNumBins>>
    /\ UNCHANGED <<sketchVars, gkVars, program, sideVars>>

NextReweight ==
    \/ \E index \in IndexSet : Add(index)
    \/ \E index \in IndexSet, count \in CountSet : AddBin(index, count)
    \/ \E w \in WeightSet : Reweight(w)

SpecReweight == InitReweight /\ [][NextReweight]_vars

----------------------------------------------------------------------------
(* Bins(): the goroutine that sends the bins on an unbuffered channel, and   *)
(* the caller that receives them                                             *)

\* the goroutine as started by Bins() on s: it is to send the bins of s in
\* order. On a DenseStore that has no bins allocated the loop reads s.bins[0]
\* and the goroutine panics; its deferred close(ch) runs and the program ends.
Bins_producer(s) ==
    IF s.kind = "dense" /\ Len(s.bins) = 0
    THEN [pc |-> "panicked", pending |-> <<>>, closed |-> TRUE]
    ELSE [pc |-> "sending", pending |-> Store_Bins(s), closed |-> FALSE]

\* faulty variant: a send completes with no receiver, as on a channel that
\* has a buffer
chan_ready_buffered(p, c) == p.pc = "sending" /\ p.pending # <<>>

\* ch := make(chan Bin): the channel has no buffer, so ch <- bin completes
\* when the consumer is at a receive
chan_ready(p, c) == p.pc = "sending" /\ p.pending # <<>> /\ c.reading

InitBins ==
    /\ program = "store"
    /\ ChanIdle
    /\ DogIdle
    /\ LoopIdle
    /\ MemIdle
    /\ store \in {NewDenseStore, NewBufferedPaginatedStore}
    /\ other = store
    /\ added = NoBins
    /\ otherAdded = NoBins
    /\ ctorMaxNumBins = 0
    /\ ops = 0
    /\ SketchIdle
    /\ GKIdle

\* ch := store.Bins(): the buffer of a paginated store is sorted by the
\* caller, then the goroutine is started
StartBins ==
    /\ producer.pc = "none"
    /\ ~store.panicked
    /\ store' = IF store.kind = "bp" THEN BP_sortBuffer(store) ELSE store
    /\ producer' = Bins_producer(store')
    /\ consumer' = [reading |-> TRUE, received |-> <<>>, done |-> FALSE]
    /\ UNCHANGED <<other, added, otherAdded, ctorMaxNumBins, ops>>
    /\ UNCHANGED <<sketchVars, gkVars, program, dogVars, loop, mem>>

\* ch <- bin in the goroutine, together with the receive of the consumer
Send ==
    /\ chan_ready(producer, consumer)
    /\ producer' = [producer EXCEPT !.pending = Tail(@)]
    /\ consumer' = [consumer EXCEPT !.received = Append(@, Head(producer.pending))]
    /\ UNCHANGED <<storeVars, ops, sketchVars, gkVars, program, dogVars, loop, mem>>

\* the loops of the goroutine are over: it returns and the deferred
\* close(ch) runs
Close ==
    /\ producer.pc = "sending"
    /\ producer.pending = <<>>
    /\ producer' = [producer EXCEPT !.pc = "done", !.closed = TRUE]
    /\ UNCHANGED <<consumer, storeVars, ops, sketchVars, gkVars, program, dogVars, loop, mem>>

\* the consumer receives from the closed channel: its range loop ends
ReceiveClosed ==
    /\ consumer.reading
    /\ producer.pc = "done"
    /\ consumer' = [consumer EXCEPT !.reading = FALSE, !.done = TRUE]
    /\ UNCHANGED <<producer, storeVars, ops, sketchVars, gkVars, program, dogVars, loop, mem>>

\* the consumer leaves its loop and receives no more
StopReading ==
    /\ consumer.reading
    /\ producer.pc \in {"sending", "done"}
    /\ consumer' = [consumer EXCEPT !.reading = FALSE]
    /\ UNCHANGED <<producer, storeVars, ops, sketchVars, gkVars, program, dogVars, loop, mem>>

NextBins ==
    \/ producer.pc = "none" /\ \E index \in IndexSet : Add(index)
    \/ producer.pc = "none"
           /\ \E index \in IndexSet, count \in CountSet : AddBin(index, count)
    \/ StartBins
    \/ Send
    \/ Close
    \/ ReceiveClosed
    \/ StopReading

\* a goroutine that can take a step takes it
SpecBins ==
    InitBins /\ [][NextBins]_vars /\ WF_vars(Send) /\ WF_vars(Close)

----------------------------------------------------------------------------
(* Two DogSketches built from one Config, with Add and Merge                 *)

MaxDogOps == 4

\* the keys Key(v) of the values added
DogKeySet == {-1, 0, 1, 5}

InitDog ==
    /\ program = "dog"
    /\ ChanIdle
    /\ DogIdle
    /\ LoopIdle
    /\ MemIdle
    /\ StoreIdle
    /\ ops = 0
    /\ SketchIdle
    /\ GKIdle

DogRunning ==
    ops < MaxDogOps /\ ~dog.store.panicked /\ ~dogOther.store.panicked

\* dog.Add(v)
DogAdd(key) ==
    /\ DogRunning
    /\ dog' = DogSketch_Add(dog, key)
    /\ ops' = ops + 1
    /\ UNCHANGED <<dogOther, storeVars, sketchVars, gkVars, program, chanVars, loop, mem>>

\* dogOther.Add(v)
DogOtherAdd(key) ==
    /\ DogRunning
    /\ dogOther' = DogSketch_Add(dogOther, key)
    /\ ops' = ops + 1
    /\ UNCHANGED <<dog, storeVars, sketchVars, gkVars, program, chanVars, loop, mem>>

\* dog.Merge(dogOther)
DogMerge ==
    /\ DogRunning
    /\ dog' = DogSketch_Merge(dog, dogOther)
    /\ ops' = ops + 1
    /\ UNCHANGED <<dogOther, storeVars, sketchVars, gkVars, program, chanVars, loop, mem>>

NextDog ==
    \/ \E key \in DogKeySet : DogAdd(key)
    \/ \E key \in DogKeySet : DogOtherAdd(key)
    \/ DogMerge

SpecDog == InitDog /\ [][NextDog]_vars

----------------------------------------------------------------------------
(* The loops of MergeWith and DecodeAndMergeWith, one pass at a time         *)
(* store runs the loop of the optimized merging over the buffer of other, or *)
(* the loop of DecodeAndMergeWith over a block of index deltas; loop.rest is *)
(* what the loop has not consumed, loop.taken the number of indexes each     *)
(* pass consumed. The histories of the bins are not kept in this program.    *)

\* n indexes, 31 a page from page 0 on: too few a page for a compaction to
\* move them to a page of counts
Sparse(n) ==
    Slice([i \in 1..n |-> ((i - 1) \div 31) * (2 ^ defaultPageLenLog2)])

\* the indexes given to the loops: none, one, less than a trigger length on
\* one page, more than a trigger length on one page, a trigger length and
\* more on sparse pages
LoopInputs ==
    {<<>>, <<0>>, Run(40, 0, 0), Run(70, 0, 0), Sparse(64), Sparse(70)}

\* the argument of MergeWith was filled by Add and holds buffered indexes only
InitLoop ==
    /\ program = "store"
    /\ ChanIdle
    /\ DogIdle
    /\ LoopIdle
    /\ MemIdle
    /\ store = NewBufferedPaginatedStore
    /\ other \in {BP_addAll(NewBufferedPaginatedStore, d) :
                     d \in {<<0>>, Run(40, 0, 0), Sparse(70)}}
    /\ added = NoBins
    /\ otherAdded = NoBins
    /\ ctorMaxNumBins = 0
    /\ ops = 0
    /\ SketchIdle
    /\ GKIdle

\* store.Add(index), between two calls
LoopAdd(index) ==
    /\ loop.pc = "none"
    /\ Add(index)

\* store.MergeWith(other) is called and takes the optimized path
StartMergeWith ==
    /\ Running
    /\ loop.pc = "none"
    /\ store.kind = "bp" /\ other.kind = "bp" /\ Len(other.pages) = 0
    /\ loop' = [pc |-> "merge", rest |-> other.buffer, taken |-> <<>>]
    /\ UNCHANGED <<storeVars, ops, sketchVars, gkVars, program, chanVars, dogVars, mem>>

\* store.DecodeAndMergeWith(b, enc.BinEncodingIndexDeltas) is called on a
\* block that decodes into indexes
StartDecodeAndMergeWith(indexes) ==
    /\ Running
    /\ loop.pc = "none"
    /\ store.kind = "bp"
    /\ loop' = [pc |-> "decode", rest |-> indexes, taken |-> <<>>]
    /\ UNCHANGED <<storeVars, ops, sketchVars, gkVars, program, chanVars, dogVars, mem>>

\* what the pass r does to the loop: it goes on unless the pass returned
LoopAdvance(r) ==
    loop' = [pc |-> IF r.returned THEN "returned" ELSE loop.pc,
             rest |-> SubSeq(loop.rest, r.taken + 1, Len(loop.rest)),
             taken |-> Append(loop.taken, r.taken)]

\* what the pass r does to the store, appended being the store with the
\* indexes of the pass in its buffer: the pass that did not return compacts
LoopPass(r, appended) ==
    /\ store' = IF r.returned THEN appended ELSE BP_compact(appended)
    /\ UNCHANGED <<other, added, otherAdded, ctorMaxNumBins, ops>>
    /\ UNCHANGED <<sketchVars, gkVars, program, chanVars, dogVars, mem>>

MergeAdvance ==
    /\ loop.pc = "merge"
    /\ LoopAdvance(BP_mergeIteration(store, loop.rest))

DecodeAdvance ==
    /\ loop.pc = "decode"
    /\ LoopAdvance(BP_decodeIteration(store, loop.rest))

\* one pass of the loop of MergeWith
MergeIteration ==
    /\ MergeAdvance
    /\ LoopPass(BP_mergeIteration(store, loop.rest),
                BP_appended(store, loop.rest,
                            BP_mergeIteration(store, loop.rest).taken))

\* one pass of the loop of DecodeAndMergeWith
DecodeIteration ==
    /\ DecodeAdvance
    /\ LoopPass(BP_decodeIteration(store, loop.rest),
                BP_appendedEach(store, loop.rest,
                                BP_decodeIteration(store, loop.rest).taken))

\* the call returns
LoopReturn ==
    /\ loop.pc = "returned"
    /\ loop' = [pc |-> "none", rest |-> <<>>, taken |-> <<>>]
    /\ ops' = ops + 1
    /\ UNCHANGED <<storeVars, sketchVars, gkVars, program, chanVars, dogVars, mem>>

NextLoop ==
    \/ \E index \in IndexSet : LoopAdd(index)
    \/ StartMergeWith
    \/ \E indexes \in LoopInputs : StartDecodeAndMergeWith(indexes)
    \/ MergeIteration
    \/ DecodeIteration
    \/ LoopReturn

\* a call that has started runs its next pass: the code of a pass has no
\* wait in it. The steps that advance the loop of a call are its passes, and
\* a pass is possible whenever the loop is under way
SpecLoop ==
    InitLoop /\ [][NextLoop]_vars
        /\ WF_loop(MergeAdvance) /\ WF_loop(DecodeAdvance)

\* C37: in the loops of MergeWith's buffer-only path and of DecodeAndMergeWith's
\* index deltas, every pass after the first consumes at least one index (a
\* pass that did not consume all that was left is followed by one that
\* consumes at least one), and a loop that runs returns
C37_LoopsTerminate ==
    /\ [](\A i \in 2..Len(loop.taken) : loop.taken[i] >= 1)
    /\ [](loop.pc \in {"merge", "decode"} => <>(loop.pc = "returned"))

\* a merge whose first pass found no room and consumed nothing, and whose
\* second pass, after the compaction, consumed the rest
C37_EmptyPassThenProgress ==
    /\ loop.pc = "returned"
    /\ Len(loop.taken) >= 2
    /\ loop.taken[1] = 0
    /\ loop.taken[2] >= 1
    /\ loop.rest = <<>>

----------------------------------------------------------------------------
(* The stores of one memory pool: the store mem.s of unnamed/part_011 and    *)
(* its copy mem.o, which takes its blocks from the pool of mem.s. mem.call   *)
(* names the last call made and the store it was made on, mem.prev the       *)
(* sortedLen and the length that the buffer of that store had before it.     *)
MaxBlkOps == 3

\* n indexes on three pages of counts, in no order: a third of them a page
Scatter(n) ==
    Slice([i \in 1..n |-> ((n - i) % 3) * pageWords + ((i * 5) % 11)])

\* what mem.s is filled with before the copy is made: nothing, less than
\* two pages of the buffer, more than two pages (one compaction, which keeps
\* all of them), and more than two pages of one index (one compaction, which
\* moves them to a page of counts)
BlkInputs == {<<>>, Scatter(40), Scatter(70), Run(70, 5, 0)}

\* indexes, counts and weights drawn by the calls
BlkIndexSet == {-1, 40}

BlkCountSet == {2}

BlkWeightSet == {2}

BlkStores == {"s", "o"}

InitBlocks ==
    /\ program = "blocks"
    /\ ChanIdle
    /\ DogIdle
    /\ LoopIdle
    /\ \E d \in BlkInputs :
           mem = [Blk_Copy(Blk_addAll(NewWorld, "s", d, 1))
                      EXCEPT !.handed = <<>>]
    /\ StoreIdle
    /\ ops = 0
    /\ SketchIdle
    /\ GKIdle

BlkRunning == ops < MaxBlkOps /\ ~mem.s.panicked /\ ~mem.o.panicked

\* the world when a call starts
BlkStart == [mem EXCEPT !.handed = <<>>]

\* the call named call, made on store t, leaves the world w
BlkCall(w, call, t) ==
    /\ BlkRunning
    /\ mem' = [w EXCEPT !.call = <<call, t>>,
                        !.prev = [sortedLen |-> mem[t].buffer.sortedLen,
                                  len |-> Blk_Len(mem[t].buffer)]]
    /\ ops' = ops + 1
    /\ UNCHANGED <<storeVars, sketchVars, gkVars, program, chanVars, dogVars, loop>>

BlkAdd(t, index) == BlkCall(Blk_Add(BlkStart, t, index), "Add", t)

BlkAddWithCount(t, index, count) ==
    BlkCall(Blk_AddWithCount(BlkStart, t, index, count), "AddWithCount", t)

\* s.compact()
BlkCompact(t) == BlkCall(Blk_compact(BlkStart, t), "compact", t)

\* s.Bins() or s.ForEach(f): s.buffer.sort()
BlkSort(t) == BlkCall(Blk_sort(BlkStart, t), "sort", t)

BlkClear(t) == BlkCall(Blk_Clear(BlkStart, t), "Clear", t)

\* mem.o = mem.s.Copy(): the copy there was is dropped with its blocks
BlkCopy == BlkCall(Blk_Copy(BlkStart), "Copy", "s")

BlkMergeWith(t, u) ==
    /\ t # u
    /\ BlkCall(Blk_MergeWith(BlkStart, t, u), "MergeWith", t)

BlkReweight(t, weight) ==
    BlkCall(Blk_Reweight(BlkStart, t, weight), "Reweight", t)

NextBlocks ==
    \/ \E t \in BlkStores, index \in BlkIndexSet : BlkAdd(t, index)
    \/ \E t \in BlkStores, index \in BlkIndexSet, count \in BlkCountSet :
           BlkAddWithCount(t, index, count)
    \/ \E t \in BlkStores : BlkCompact(t)
    \/ \E t \in BlkStores : BlkSort(t)
    \/ \E t \in BlkStores : BlkClear(t)
    \/ BlkCopy
    \/ \E t \in BlkStores, u \in BlkStores : BlkMergeWith(t, u)
    \/ \E t \in BlkStores, weight \in BlkWeightSet : BlkReweight(t, weight)

SpecBlocks == InitBlocks /\ [][NextBlocks]_vars

\* the places of the world w where a block is in use: the pages of the two
\* buffers and the entries of the two arrays of pages of counts that are
\* not nil
BlkUses(w) ==
    UNION {{<<t, "buffer", i>> : i \in 1..Len(w[t].buffer.pages)}
               \cup {<<t, "counts", i>> :
                        i \in {j \in 1..Len(w[t].pages.arr) :
                                  w[t].pages.arr[j] # 0}} :
           t \in BlkStores}

\* the block in use at a place
BlkUsed(w, u) ==
    IF u[2] = "buffer" THEN w[u[1]].buffer.pages[u[3]].blk
    ELSE w[u[1]].pages.arr[u[3]]

\* C38: whatever the calls made on the two stores of a pool, no block of the
\* free list of the pool is in use as a page of a buffer or as a page of
\* counts, no block is twice in the free list, no block is in use at two
\* places, and every block that acquire() handed out during the last call
\* had the block size of the pool and held nothing but zeros.
C38_BlocksOwnedOnce ==
    /\ \A u \in BlkUses(mem) : \A i \in 1..Len(mem.pool) :
           mem.pool[i].blk # BlkUsed(mem, u)
    /\ \A i, j \in 1..Len(mem.pool) :
           i # j => mem.pool[i].blk # mem.pool[j].blk
    /\ \A u, v \in BlkUses(mem) :
           u # v => BlkUsed(mem, u) # BlkUsed(mem, v)
    /\ \A i \in 1..Len(mem.handed) :
           mem.handed[i].zero /\ mem.handed[i].len = pageWords

\* a block that was released is handed out again and is a page, while other
\* blocks wait in the pool
C38_BlockReused ==
    /\ program = "blocks"
    /\ mem.pool # <<>>
    /\ \E i \in 1..Len(mem.handed) :
           /\ mem.handed[i].reused
           /\ \E u \in BlkUses(mem) : BlkUsed(mem, u) = mem.handed[i].blk

----------------------------------------------------------------------------
\* the shape of a buffer b: lastPage points to the last page, or to an empty
\* slice when there is no page, and the pages before the last are full
BufferShape(b) ==
    /\ b.lastPage.kind # "nil"
    /\ Len(b.pages) = 0 => b.lastPage = EmptyPtr
    /\ Len(b.pages) > 0 => b.lastPage = SlotPtr(Len(b.pages))
    /\ \A i \in 1..Len(b.pages) - 1 : b.pages[i].len = pageWords

\* C39: the buffer of every store that the calls reach, the buffer that
\* copy() returns included, has a lastPage that is not nil and points to
\* the last of its pages (to an empty slice when it has no page), and all
\* its pages but the last are full.
C39_LastPageIsLastPage ==
    program = "blocks" =>
        \A t \in BlkStores : ~mem[t].panicked => BufferShape(mem[t].buffer)

\* the sequence after holds the elements of the sequence before, each as
\* many times, in non-decreasing order
SortedPermutation(before, after) ==
    /\ Len(after) = Len(before)
    /\ \A i \in 1..Len(after) - 1 : after[i] <= after[i + 1]
    /\ \A v \in {before[i] : i \in 1..Len(before)} :
           Cardinality({j \in 1..Len(before) : before[j] = v})
               = Cardinality({j \in 1..Len(after) : after[j] = v})

\* C40: every call of sort() on a buffer returns, without a panic, with the
\* indexes the buffer held before the call in non-decreasing order and with
\* sortedLen equal to the length of the buffer, whatever sortedLen was before
\* the call and however many indexes were added since the last sort.
C40_SortSorts ==
    [][mem'.call[1] = "sort" /\ ops' = ops + 1 =>
           /\ ~mem'[mem'.call[2]].panicked
           /\ SortedPermutation(
                  Blk_flat(mem.heap, mem[mem'.call[2]].buffer, 1),
                  Blk_flat(mem'.heap, mem'[mem'.call[2]].buffer, 1))
           /\ mem'[mem'.call[2]].buffer.sortedLen
                  = Blk_Len(mem'[mem'.call[2]].buffer)]_vars

\* sort() has returned on a buffer of more than one page whose sorted prefix
\* ended in the middle of a page, with indexes added after it
C40_SortedFromMidPage ==
    /\ program = "blocks"
    /\ mem.call[1] = "sort"
    /\ mem.prev.sortedLen > pageWords
    /\ mem.prev.sortedLen % pageWords # 0
    /\ mem.prev.len > mem.prev.sortedLen
    /\ ~mem[mem.call[2]].panicked
    /\ mem[mem.call[2]].buffer.sortedLen = mem.prev.len

(* The DDSketch state machine with a second sketch: adds of any float64, and
   MergeWith *)
MaxMergeOps == 3

\* values drawn by Add/AddWithCount: in range, NaN, infinite, and beyond
\* MaxIndexableValue
FloatValueSet == {-3, 0, 3, 12, NaN, Inf, -Inf, 2 ^ 24 + 1, -(2 ^ 24) - 1}

\* counts drawn by AddWithCount
FloatCountSet == {-1, 2}

\* the stores of sketch and of sketchOther
SketchStorePairs ==
    {<<NewDenseStore, NewDenseStore>>,
     <<NewCollapsingLowestDenseStore(3), NewCollapsingLowestDenseStore(3)>>,
     <<NewCollapsingHighestDenseStore(3), NewCollapsingHighestDenseStore(3)>>,
     <<NewCollapsingLowestDenseStore(3), NewDenseStore>>,
     <<NewBufferedPaginatedStore, NewBufferedPaginatedStore>>,
     <<NewDenseStore, NewBufferedPaginatedStore>>,
     <<NewBufferedPaginatedStore, NewDenseStore>>}

InitSketchMerge ==
    /\ program = "ddsketch"
    /\ ChanIdle
    /\ DogIdle
    /\ LoopIdle
    /\ MemIdle
    /\ \E pair \in SketchStorePairs, gammaLog2 \in {1, 2} :
           /\ sketch = NewDDSketch(NewLogarithmicMapping(1), pair[1], pair[1])
           /\ sketchOther = NewDDSketch(NewLogarithmicMapping(gammaLog2),
                                        pair[2], pair[2])
    /\ sketchData = NoData(SketchValueSet)
    /\ sketchErr = ErrNil
    /\ ops = 0
    /\ StoreIdle
    /\ GKIdle

SketchPanicked(s) == s.positiveValueStore.panicked \/ s.negativeValueStore.panicked

SketchMergeRunning ==
    ops < MaxMergeOps /\ ~SketchPanicked(sketch) /\ ~SketchPanicked(sketchOther)

\* sketch.Add(value), any float64
SketchAddFloat(value) ==
    /\ SketchMergeRunning
    /\ sketch' = DDSketch_Add(sketch, value)
    /\ sketchErr' = DDSketch_AddWithCount_error(sketch, value, 1)
    /\ sketchData' = IF sketchErr' # ErrNil \/ value \notin DOMAIN sketchData
                     THEN sketchData ELSE Dataset_Add(sketchData, value, 1)
    /\ ops' = ops + 1
    /\ UNCHANGED <<sketchOther, storeVars, gkVars, program, sideVars>>

\* sketch.AddWithCount(value, count), any float64 and any count
SketchAddFloatWithCount(value, count) ==
    /\ SketchMergeRunning
    /\ sketch' = DDSketch_AddWithCount(sketch, value, count)
    /\ sketchErr' = DDSketch_AddWithCount_error(sketch, value, count)
    /\ sketchData' = IF sketchErr' # ErrNil \/ value \notin DOMAIN sketchData
                     THEN sketchData ELSE Dataset_Add(sketchData, value, count)
    /\ ops' = ops + 1
    /\ UNCHANGED <<sketchOther, storeVars, gkVars, program, sideVars>>

\* sketchOther.Add(value)
SketchOtherAdd(value) ==
    /\ SketchMergeRunning
    /\ sketchOther' = DDSketch_Add(sketchOther, value)
    /\ ops' = ops + 1
    /\ UNCHANGED <<sketch, sketchData, sketchErr, storeVars, gkVars, program, sideVars>>

\* sketch.MergeWith(sketchOther)
SketchMergeWith ==
    /\ SketchMergeRunning
    /\ sketch' = DDSketch_MergeWith(sketch, sketchOther)
    /\ sketchOther' = DDSketch_MergeArg(sketch, sketchOther)
    /\ sketchErr' = DDSketch_MergeWith_error(sketch, sketchOther)
    /\ ops' = ops + 1
    /\ UNCHANGED <<sketchData, storeVars, gkVars, program, sideVars>>

\* sketchOther = sketch.Copy(), for a sketch over paginated stores (the Copy
\* of the dense stores is not in the source)
SketchCopy ==
    /\ SketchMergeRunning
    /\ sketch.positiveValueStore.kind \in {"bp", "bp2"}
    /\ sketch.negativeValueStore.kind \in {"bp", "bp2"}
    /\ sketchOther' = DDSketch_Copy(sketch)
    /\ sketchErr' = ErrNil
    /\ ops' = ops + 1
    /\ UNCHANGED <<sketch, sketchData, storeVars, gkVars, program, sideVars>>

NextSketchMerge ==
    \/ \E value \in FloatValueSet : SketchAddFloat(value)
    \/ \E value \in FloatValueSet, count \in FloatCountSet :
           SketchAddFloatWithCount(value, count)
    \/ \E value \in SketchValueSet : SketchOtherAdd(value)
    \/ SketchMergeWith
    \/ SketchCopy

SpecSketchMerge == InitSketchMerge /\ [][NextSketchMerge]_vars

----------------------------------------------------------------------------
(* The GKArray specification: a receiver and an argument of Merge, built     *)
(* with the same epsilon, with the Datasets of what they hold                *)

MaxGKOps == 8

InitGK ==
    /\ program = "gk"
    /\ ChanIdle
    /\ DogIdle
    /\ LoopIdle
    /\ MemIdle
    /\ GKIdle
    /\ ops = 0
    /\ StoreIdle
    /\ SketchIdle

GKRunning == ops < MaxGKOps /\ ~gk.panicked

\* gk.Add(v)
GKAdd(v) ==
    /\ GKRunning
    /\ gk' = GK_Add(gk, v)
    /\ gkData' = Dataset_Add(gkData, v, 1)
    /\ ops' = ops + 1
    /\ UNCHANGED <<gkOther, gkOtherData, gkMerged, storeVars, sketchVars, program, sideVars>>

\* gkOther.Add(v)
GKOtherAdd(v) ==
    /\ GKRunning
    /\ gkOther' = GK_Add(gkOther, v)
    /\ gkOtherData' = Dataset_Add(gkOtherData, v, 1)
    /\ ops' = ops + 1
    /\ UNCHANGED <<gk, gkData, gkMerged, storeVars, sketchVars, program, sideVars>>

\* gk.Quantile(q), on a sketch that is not empty
GKQuantile ==
    /\ GKRunning
    /\ gk.count > 0
    /\ gk' = GK_afterQuantile(gk)
    /\ ops' = ops + 1
    /\ UNCHANGED <<gkOther, gkData, gkOtherData, gkMerged, storeVars, sketchVars, program, sideVars>>

\* gkOther.Quantile(q), on a sketch that is not empty
GKOtherQuantile ==
    /\ GKRunning
    /\ gkOther.count > 0
    /\ gkOther' = GK_afterQuantile(gkOther)
    /\ ops' = ops + 1
    /\ UNCHANGED <<gk, gkData, gkOtherData, gkMerged, storeVars, sketchVars, program, sideVars>>

\* gk.Merge(gkOther)
GKMerge ==
    /\ GKRunning
    /\ gk' = GK_Merge(gk, gkOther)
    /\ gkOther' = GK_MergeArg(gk, gkOther)
    /\ gkData' = Dataset_Merge(gkData, gkOtherData)
    /\ gkMerged' = (gkMerged \/ gkOther.count > 0)
    /\ ops' = ops + 1
    /\ UNCHANGED <<gkOtherData, storeVars, sketchVars, program, sideVars>>

NextGK ==
    \/ \E v \in GKValueSet : GKAdd(v)
    \/ \E v \in GKOtherValueSet : GKOtherAdd(v)
    \/ GKQuantile
    \/ GKOtherQuantile
    \/ GKMerge

SpecGK == InitGK /\ [][NextGK]_vars

----------------------------------------------------------------------------
(* The GKArray specification with Compress and with arguments of Merge built *)
(* with the receiver's epsilon or with another one                           *)

MaxGKValidOps == 7

\* the receiver is built with epsilon = 1/2, the argument of Merge with 1/2
\* or 1/4
GKValidEpsilonInv == 2

GKOtherEpsilonInvs == {GKValidEpsilonInv, EpsilonInv}

InitGKValid ==
    /\ program = "gk"
    /\ ChanIdle
    /\ DogIdle
    /\ LoopIdle
    /\ MemIdle
    /\ gk = NewGKArray(GKValidEpsilonInv)
    /\ \E epsilonInv \in GKOtherEpsilonInvs : gkOther = NewGKArray(epsilonInv)
    /\ gkData = NoData(GKValueSet)
    /\ gkOtherData = NoData(GKValueSet)
    /\ gkMerged = FALSE
    /\ ops = 0
    /\ StoreIdle
    /\ SketchIdle

GKValidRunning == ops < MaxGKValidOps

\* gk.Compress()
GKCompress ==
    /\ GKRunning
    /\ gk' = GK_compressWithIncoming(gk, <<>>)
    /\ ops' = ops + 1
    /\ UNCHANGED <<gkOther, gkData, gkOtherData, gkMerged, storeVars, sketchVars, program, sideVars>>

\* gkOther.Compress()
GKOtherCompress ==
    /\ GKRunning
    /\ gkOther' = GK_compressWithIncoming(gkOther, <<>>)
    /\ ops' = ops + 1
    /\ UNCHANGED <<gk, gkData, gkOtherData, gkMerged, storeVars, sketchVars, program, sideVars>>

NextGKValid ==
    \/ \E v \in GKValueSet : GKValidRunning /\ GKAdd(v)
    \/ \E v \in GKOtherValueSet : GKValidRunning /\ GKOtherAdd(v)
    \/ GKValidRunning /\ GKQuantile
    \/ GKValidRunning /\ GKOtherQuantile
    \/ GKValidRunning /\ GKCompress
    \/ GKValidRunning /\ GKOtherCompress
    \/ GKValidRunning /\ GKMerge

SpecGKValid == InitGKValid /\ [][NextGKValid]_vars

----------------------------------------------------------------------------
(* Both families of sketches: a run works on the GKArrays or on the          *)
(* DDSketches, queries included                                              *)

InitSketches == InitGKValid \/ InitSketchMerge

GKProgram == program = "gk" /\ GKValidRunning

SketchProgram == program = "ddsketch" /\ SketchMergeRunning

NextSketches ==
    \/ \E v \in GKValueSet : GKProgram /\ GKAdd(v)
    \/ \E v \in GKOtherValueSet : GKProgram /\ GKOtherAdd(v)
    \/ GKProgram /\ GKQuantile
    \/ GKProgram /\ GKOtherQuantile
    \/ GKProgram /\ GKCompress
    \/ GKProgram /\ GKOtherCompress
    \/ GKProgram /\ GKMerge
    \/ \E value \in FloatValueSet : SketchProgram /\ SketchAddFloat(value)
    \/ \E value \in FloatValueSet, count \in FloatCountSet :
           SketchProgram /\ SketchAddFloatWithCount(value, count)
    \/ \E value \in SketchValueSet : SketchProgram /\ SketchOtherAdd(value)
    \/ SketchProgram /\ SketchMergeWith
    \/ SketchProgram /\ SketchCopy
    \/ SketchProgram /\ SketchGetValueAtQuantile

SpecSketches == InitSketches /\ [][NextSketches]_vars

----------------------------------------------------------------------------
(* Claims *)

\* 3 * sign * Value(index) >= n and <= n, for an integer n: Value(index) is
\* gamma^index * 4/3
ValueGeq(r, n) ==
    IF r.sign = 0 THEN 0 >= n
    ELSE IF r.sign = 1 THEN n <= 0 \/ ~PowLeq(r.index, 4, n - 1)
    ELSE n < 0 /\ PowLeq(r.index, 4, -n)

ValueLeq(r, n) ==
    IF r.sign = 0 THEN 0 <= n
    ELSE IF r.sign = 1 THEN n > 0 /\ PowLeq(r.index, 4, n)
    ELSE n >= 0 \/ ~PowLeq(r.index, 4, -n - 1)

\* the bin r = [sign, index] holds a real value of [lo, hi], lo and hi integers:
\* the bin of index i holds the values of [gamma^i, gamma^(i+1)) in magnitude
BinMeets(r, lo, hi) ==
    IF r.sign = 0 THEN lo <= 0 /\ 0 <= hi
    ELSE IF r.sign = 1
    THEN /\ hi >= 1 /\ PowLeq(r.index, 1, hi)
         /\ lo <= 0 \/ ~PowLeq(r.index + 1, 1, lo)
    ELSE /\ lo <= -1 /\ PowLeq(r.index, 1, -lo)
         /\ hi >= 0 \/ ~PowLeq(r.index + 1, 1, -hi)

SketchNonEmpty == DDSketch_getCount(sketch) > 0

\* C1 as stated: GetValueAtQuantile(q) lies in [Q-(q)(1 - alpha), Q+(q)(1 + alpha)]
\* with alpha = 1/3, for every q, and the bin selected holds a value between
\* the lower and the upper quantile of the values added.
C1_InLiteralInterval ==
    SketchNonEmpty =>
        \A q \in Quantiles :
            LET r == DDSketch_getValueAtQuantile(sketch, q[1], q[2])
                lo == Dataset_LowerQuantile(sketchData, q[1], q[2])
                hi == Dataset_UpperQuantile(sketchData, q[1], q[2])
            IN /\ ValueGeq(r, 2 * lo)
               /\ ValueLeq(r, 4 * hi)
               /\ BinMeets(r, lo, hi)

\* C1, amended: GetValueAtQuantile(q) lies in
\* [min(Q-(1 - alpha), Q-(1 + alpha)), max(Q+(1 - alpha), Q+(1 + alpha))], and the
\* bin selected holds a value between the lower and the upper quantile.
C1_RelativelyAccurate ==
    SketchNonEmpty =>
        \A q \in Quantiles :
            LET r == DDSketch_getValueAtQuantile(sketch, q[1], q[2])
                lo == Dataset_LowerQuantile(sketchData, q[1], q[2])
                hi == Dataset_UpperQuantile(sketchData, q[1], q[2])
            IN /\ ValueGeq(r, min(2 * lo, 4 * lo))
               /\ ValueLeq(r, max(2 * hi, 4 * hi))
               /\ BinMeets(r, lo, hi)

\* C1 happens: negative, zero and positive values were added, each is the
\* answer for some quantile, and lower and upper quantile differ for another
C1_MixedSigns ==
    /\ SketchNonEmpty
    /\ \A sign \in {-1, 0, 1} : \E q \in Quantiles :
           DDSketch_getValueAtQuantile(sketch, q[1], q[2]).sign = sign
    /\ \E q \in Quantiles :
           Dataset_LowerQuantile(sketchData, q[1], q[2])
               < Dataset_UpperQuantile(sketchData, q[1], q[2])

\* the distance from position t to the ranks of v, MinRank(v)..MaxRank(v)
RankDistance(d, v, t) ==
    LET lo == Dataset_MinRank(d, v)
        hi == Dataset_MaxRank(d, v)
    IN IF t < lo THEN lo - t ELSE IF t > hi THEN t - hi ELSE 0

\* C2: the rank of Quantile(q) differs from ceil(q (n - 1)) by at most
\* epsilon n when the sketch was filled by Add only, and by at most
\* 2 epsilon n when Merge was used; a rank of v is any number from MinRank(v)
\* to MaxRank(v).
C2_RankError ==
    gk.count > 0 =>
        \A q \in Quantiles :
            RankDistance(gkData, GK_Quantile(gk, q[1], q[2]),
                         -((-(q[1] * (gk.count - 1))) \div q[2])) * EpsilonInv
                <= (IF gkMerged THEN 2 ELSE 1) * gk.count

\* the dense stores panic when Bins() is called before bins are allocated
BinsCompletes(s) == s.kind \in {"bp", "bp2"} \/ Len(s.bins) > 0

\* the indexes that were added with a non-zero count
AddedIndexes == {i \in HistoryIndexes : added[i] # 0}

Collapsing(s) == s.kind \in {"lowest", "highest"}

\* the operation completed and the store holds something
NonEmpty(s) == ~s.panicked /\ Store_TotalCount(s) > 0

\* C3: for every store type, after any sequence of Add, AddBin and MergeWith
\* that completed, TotalCount() is the sum of the counts contributed, and it
\* is the sum of the counts of the bins that iteration returns.
C3_TotalCountIsSumOfContributions ==
    ~store.panicked =>
        /\ Store_TotalCount(store) = SumAdded(added)
        /\ BinsCompletes(store) => SumBins(Store_Bins(store)) = SumAdded(added)

\* C3 happens: a collapsing store that was merged into and whose bins are no
\* longer the bins added (counts were moved by a collapse)
C3_CollapsedAfterMerge ==
    /\ Collapsing(store) /\ ~store.panicked
    /\ SumAdded(otherAdded) > 0
    /\ \E i \in HistoryIndexes : otherAdded[i] > 0 /\ added[i] >= otherAdded[i]
    /\ Store_TotalCount(store) >= 3
    /\ Store_Bins(store) # Normalized(added)

C5_AtMostMaxNumBins ==
    (Collapsing(store) /\ ~store.panicked) =>
        /\ Len(store.bins) <= ctorMaxNumBins
        /\ store.count > 0 =>
               Store_MaxIndex(store).v - Store_MinIndex(store).v + 1
                   <= ctorMaxNumBins

\* the bins that collapsing the lowest indexes of the history leaves: every
\* index i becomes max(i, M - maxNumBins + 1), M the largest index added
CollapsedLowest(h, maxNumBins) ==
    LET P == {i \in DOMAIN h : h[i] # 0}
        M == CHOOSE i \in P : \A k \in P : i >= k
        to(i) == max(i, M - maxNumBins + 1)
        T == {to(i) : i \in P}
    IN Normalized([k \in T |-> SumOver(h, {i \in P : to(i) = k})])

\* C6: after Add and AddBin only (SpecAddBin), the bins of a
\* CollapsingLowestDenseStore are the bins added with every index i replaced by
\* max(i, M - maxNumBins + 1).
C6_CollapsingLowestBins ==
    (store.kind = "lowest" /\ NonEmpty(store)) =>
        Store_Bins(store) = CollapsedLowest(added, ctorMaxNumBins)

\* C7: after Add only (SpecAdd), MaxIndex() of a CollapsingLowestDenseStore is
\* the largest index added and MinIndex() of a CollapsingHighestDenseStore is
\* the smallest index added.
C7_ExtremeIndexIsExact ==
    NonEmpty(store) =>
        /\ store.kind = "lowest" =>
               Store_MaxIndex(store) =
                   [err |-> FALSE,
                    v |-> CHOOSE i \in AddedIndexes : \A k \in AddedIndexes : i >= k]
        /\ store.kind = "highest" =>
               Store_MinIndex(store) =
                   [err |-> FALSE,
                    v |-> CHOOSE i \in AddedIndexes : \A k \in AddedIndexes : i <= k]

\* C7 happens: lower indexes were collapsed and the array reaches beyond the
\* largest index added
C7_CollapsedBelowMax ==
    /\ store.kind = "lowest" /\ NonEmpty(store)
    /\ \E i \in AddedIndexes : i < store.minIndex
    /\ Store_MaxIndex(store).v < store.maxIndex
    /\ Store_MaxIndex(store).v \in AddedIndexes

\* ranks are checked at the numerators n of n / RankDen that are among the
\* RankWindow lowest or the RankWindow highest of a range
RankDen == 2

RankWindow == 3

RankNums(from, to) ==
    {n \in from..to : n < from + RankWindow \/ n > to - RankWindow}

\* the smallest index k of bins such that the sum of the counts of the bins of
\* index <= k is greater than rankNum / rankDen
SmallestKeyAbove(bins, cumul, rankNum, rankDen) ==
    LET K == {j \in 1..Len(bins) : cumul[j] * rankDen > rankNum}
    IN bins[CHOOSE j \in K : \A k \in K : j <= k].index

\* the sums of the counts of the bins up to each bin
CumulCounts(bins) ==
    Slice([j \in 1..Len(bins) |->
              SumOver([i \in 1..Len(bins) |-> bins[i].count], 1..j)])

\* C8: for 0 <= r < TotalCount(), KeyAtRank(r) is the smallest index k such
\* that the sum of the counts of the bins of index <= k is greater than r.
C8_KeyAtRankInRange ==
    NonEmpty(store) =>
        LET bins == Store_Bins(store)
            cumul == CumulCounts(bins)
        IN \A n \in RankNums(0, RankDen * Store_TotalCount(store) - 1) :
               Store_KeyAtRank(store, n, RankDen)
                   = SmallestKeyAbove(bins, cumul, n, RankDen)

\* C8 happens: a store of several bins where the key changes between two ranks
\* below the total count
C8_SeveralKeys ==
    /\ NonEmpty(store)
    /\ Len(Store_Bins(store)) >= 2
    /\ Store_TotalCount(store) >= 3
    /\ Store_KeyAtRank(store, 0, RankDen)
           < Store_KeyAtRank(store, RankDen * Store_TotalCount(store) - 1, RankDen)

\* C9: KeyAtRank(r) with r < 0 is KeyAtRank(0), the smallest index that has a
\* positive count.
C9_NegativeRankIsRankZero ==
    NonEmpty(store) =>
        \A n \in RankNums(-RankDen * 2, -1) :
            /\ Store_KeyAtRank(store, n, RankDen) = Store_KeyAtRank(store, 0, 1)
            /\ Store_KeyAtRank(store, n, RankDen) = Store_Bins(store)[1].index

\* C10: KeyAtRank(r) with r >= TotalCount() is MaxIndex(), the largest index
\* that has a positive count.
C10_RankBeyondTotalIsMaxIndex ==
    NonEmpty(store) =>
        \A n \in RankNums(RankDen * Store_TotalCount(store),
                          RankDen * Store_TotalCount(store) + RankDen * 2) :
            /\ Store_KeyAtRank(store, n, RankDen) = Store_MaxIndex(store).v
            /\ Store_KeyAtRank(store, n, RankDen)
                   = Store_Bins(store)[Len(Store_Bins(store))].index

CollapsedHighest(h, maxNumBins) ==
    LET P == {i \in DOMAIN h : h[i] # 0}
        m == CHOOSE i \in P : \A k \in P : i <= k
        to(i) == min(i, m + maxNumBins - 1)
        T == {to(i) : i \in P}
    IN Normalized([k \in T |-> SumOver(h, {i \in P : to(i) = k})])

\* the bins of a store, a dense store without bins allocated having none
LogicalBins(s) == IF BinsCompletes(s) THEN Store_Bins(s) ELSE <<>>

\* the bin-wise sum of two sequences of bins, as a function of the index
BinwiseSum(a, b) ==
    LET countIn(bins, i) ==
            SumOver([j \in 1..Len(bins) |-> bins[j].count],
                    {j \in 1..Len(bins) : bins[j].index = i})
    IN [i \in {a[j].index : j \in 1..Len(a)} \cup {b[j].index : j \in 1..Len(b)}
           |-> countIn(a, i) + countIn(b, i)]

\* the bins h under the collapsing policy of a store of this kind and maxNumBins
UnderPolicy(kind, maxNumBins, h) ==
    IF \A i \in DOMAIN h : h[i] = 0 THEN <<>>
    ELSE CASE kind = "lowest" -> CollapsedLowest(h, maxNumBins)
           [] kind = "highest" -> CollapsedHighest(h, maxNumBins)
           [] OTHER -> Normalized(h)

\* C12: store.MergeWith(other) completes for an argument of any type, and
\* afterwards the bins of store are the bin-wise sum of the bins store and other
\* had before the call, under the collapsing policy of store.
C12_MergeWithIsAdditive ==
    [][MergeWith =>
          /\ ~store'.panicked
          /\ LogicalBins(store')
                 = UnderPolicy(store.kind, ctorMaxNumBins,
                               BinwiseSum(LogicalBins(store), LogicalBins(other)))]_vars

\* C13: after MergeWith between collapsing stores of one type and one
\* maxNumBins (SpecMerge), the bins of the receiver are the bins added to the
\* merged stores with every index i replaced by max(i, M - maxNumBins + 1), M
\* the largest index added (min(i, m + maxNumBins - 1), m the smallest, for a
\* CollapsingHighestDenseStore).
C13_MergedIsCollapsedUnion ==
    (Collapsing(store) /\ store.kind = other.kind /\ ~store.panicked) =>
        LogicalBins(store) = UnderPolicy(store.kind, ctorMaxNumBins, added)

\* the logical state of a store: its bins, TotalCount, MinIndex and MaxIndex, or
\* that the operation that led to it panicked
LogicalState(s) ==
    IF s.panicked
    THEN [panicked |-> TRUE, bins |-> <<>>, totalCount |-> 0,
          minIndex |-> [err |-> TRUE, v |-> 0], maxIndex |-> [err |-> TRUE, v |-> 0]]
    ELSE [panicked |-> FALSE, bins |-> LogicalBins(s),
          totalCount |-> Store_TotalCount(s),
          minIndex |-> Store_MinIndex(s), maxIndex |-> Store_MaxIndex(s)]

\* C14: from every state of a store, the empty store included,
\* AddBin(Bin{index: i, count: 1}) leaves the same logical state as Add(i), and
\* AddBin(Bin{index: i, count: c}) the same as AddWithCount(i, c) for the stores
\* that have it (DenseStore.addWithCount, BufferedPaginatedStore.AddWithCount).
C14_AddBinIsAddWithCount ==
    ~store.panicked =>
        \A i \in IndexSet :
            /\ LogicalState(Store_AddBin(store, [index |-> i, count |-> 1]))
                   = LogicalState(Store_Add(store, i))
            /\ \A c \in CountSet :
                   /\ store.kind = "dense" =>
                          LogicalState(DenseStore_AddBin(store, [index |-> i, count |-> c]))
                              = LogicalState(DenseStore_addWithCount(store, i, c))
                   /\ store.kind = "bp" =>
                          LogicalState(BP_AddBin(store, [index |-> i, count |-> c]))
                              = LogicalState(BP_AddWithCount(store, i, c))

\* what a caller can read from a sketch: its count, the bins of its stores and
\* the result of GetValueAtQuantile for each quantile
SketchReadings(s) ==
    [count |-> DDSketch_getCount(s),
     zeroCount |-> s.zeroCount,
     positive |-> LogicalState(s.positiveValueStore),
     negative |-> LogicalState(s.negativeValueStore),
     quantiles |-> [q \in Quantiles |->
                       IF DDSketch_getCount(s) > 0
                       THEN DDSketch_getValueAtQuantile(s, q[1], q[2])
                       ELSE [sign |-> 0, index |-> 0]]]

\* C15: s.MergeWith(o) leaves the count, the bins and every quantile result of
\* the argument o as they were, for a DDSketch and for the stores it merges.
C15_MergeWithKeepsArgument ==
    [][SketchMergeWith =>
           SketchReadings(sketchOther') = SketchReadings(sketchOther)]_vars

\* C15 happens: two values were added to the argument, whose paginated store
\* buffered them out of order, and the receiver holds them after the merge
C15_MergedFromUnsortedBuffer ==
    /\ ops = 3
    /\ sketchErr = ErrNil
    /\ sketch.positiveValueStore.kind = "dense"
    /\ sketchOther.positiveValueStore.kind = "bp"
    /\ Len(sketchOther.positiveValueStore.buffer) = 2
    /\ DDSketch_getCount(sketch) = 2
    /\ Len(LogicalBins(sketch.positiveValueStore)) = 2
    /\ LogicalBins(sketch.positiveValueStore)
           = LogicalBins(sketchOther.positiveValueStore)

\* what a caller can read from a GKArray: count, min, max, sum, and Quantile(q)
\* for the quantiles tried and for each q = k / (count - 1)
GKReadings(s) ==
    IF s.count = 0 THEN [count |-> 0, sum |-> s.sum]
    ELSE [count |-> s.count, min |-> s.min, max |-> s.max, sum |-> s.sum,
          quantiles |-> [q \in Quantiles |-> GK_Quantile(s, q[1], q[2])],
          ranks |-> [k \in 0..(s.count - 2) |-> GK_Quantile(s, k, s.count - 1)]]

\* C16: s.Merge(o) leaves the count, min, max and sum of o and the result of
\* every o.Quantile(q) as they were, with or without values pending in the
\* incoming buffer of o.
C16_MergeKeepsArgument ==
    [][GKMerge => GKReadings(gkOther') = GKReadings(gkOther)]_vars

\* C17: a store returned by Copy() has the bins of the original; every later
\* Add, AddBin, MergeWith and Clear on the copy succeeds and leaves the bins of
\* the original as they were, and every later operation on the original leaves
\* the bins of the copy as they were: other, the copy, has not panicked, and
\* each store holds the bins of its own history.
C17_CopyIsIndependent ==
    /\ ~other.panicked
    /\ ~store.panicked => Store_Bins(store) = Normalized(added)
    /\ Store_Bins(other) = Normalized(otherAdded)

\* C18: the sketch returned by Copy() has the total count of the original,
\* whatever zero, positive and negative values the original holds
C18_CopyKeepsCount ==
    [][SketchCopy =>
           DDSketch_getCount(sketchOther') = DDSketch_getCount(sketch)]_vars

\* the inputs the sketch does not track: NaN, the infinities, the values
\* beyond MaxIndexableValue in absolute value, and the negative counts
Untracked(value, count) ==
    \/ value \in {NaN, Inf, -Inf}
    \/ value # NaN /\ value > LogarithmicMapping_MaxIndexableValue(sketch.IndexMapping)
    \/ value # NaN /\ value < -LogarithmicMapping_MaxIndexableValue(sketch.IndexMapping)
    \/ count < 0

\* C19: Add and AddWithCount return an error and leave the sketch (both
\* stores and zeroCount) unchanged when the value is NaN, an infinity or
\* beyond MaxIndexableValue in absolute value, or the count is negative
C19_UntrackedIsRejected ==
    [][/\ \A value \in FloatValueSet :
              SketchAddFloat(value) /\ Untracked(value, 1)
                  => sketchErr' # ErrNil /\ sketch' = sketch
       /\ \A value \in FloatValueSet, count \in FloatCountSet :
              SketchAddFloatWithCount(value, count) /\ Untracked(value, count)
                  => sketchErr' # ErrNil /\ sketch' = sketch]_vars

\* C20: MergeWith(other) returns an error and leaves the receiver (both
\* stores and zeroCount) unchanged when the index mappings of the two
\* sketches are not Equals
C20_MergeWithDifferentMapping ==
    [][SketchMergeWith /\ ~LogarithmicMapping_Equals(sketch.IndexMapping,
                                                     sketchOther.IndexMapping)
           => sketchErr' # ErrNil /\ sketch' = sketch]_vars

\* a merge was refused for its mapping, with values in both sketches
C20_RefusedMerge ==
    /\ sketchErr = DDSketch_MergeWith_error(sketch, sketchOther)
    /\ sketchErr # ErrNil
    /\ DDSketch_getCount(sketch) > 0
    /\ DDSketch_getCount(sketchOther) > 0

\* C21: Merge(other) with an epsilon of other that differs from the receiver's
\* returns to the caller, with an error, and leaves the receiver unchanged
C21_MergeDifferentEpsilon ==
    [][GKMerge /\ gkOther.epsilonInv # gk.epsilonInv
           => ~gk'.panicked /\ gk' = gk]_vars

GK_ordered(s) ==
    \A k \in 1..(Len(s.entries) - 1) : s.entries[k].v <= s.entries[k + 1].v

\* C23: in every state the entries are ordered by non-decreasing v, also after
\* a Merge has inserted the bands built from the other sketch, the band
\* back-dated to other.min included
C23_EntriesOrdered == GK_ordered(gk) /\ GK_ordered(gkOther)

\* gk, holding a value of its own below them, took the bands of gkOther, the
\* band back-dated to gkOther.min included
C23_MergedBackDatedBand ==
    /\ gkMerged
    /\ gkOther.count > 0
    /\ Len(gkOther.incoming) = 0
    /\ Len(GK_incomingEntries(gkOther)) = Len(gkOther.entries) + 1
    /\ gk.min < gkOther.min
    /\ gk.count > gkOther.count
    /\ Len(gk.entries) >= 3

\* every entry of s has g + delta, the uint32 values read as numbers, at
\* most bound
GK_bandsWithin(s, bound) ==
    \A k \in 1..Len(s.entries) :
        /\ s.entries[k].g >= 0
        /\ s.entries[k].delta >= 0
        /\ s.entries[k].g + s.entries[k].delta <= bound

SketchesAlike ==
    /\ LogarithmicMapping_Equals(sketch.IndexMapping, sketchOther.IndexMapping)
    /\ sketch.positiveValueStore.kind = sketchOther.positiveValueStore.kind

\* C25: merging with an empty sketch is an identity, for GKArray and for
\* DDSketch: a.Merge(empty) leaves a unchanged, and empty.Merge(a) leaves in
\* the receiver what a holds, with the count, min, max, sum and quantile
\* results of a (the bins, for a DDSketch whose stores are of the type of
\* the stores of a)
C25_MergeEmptyIsIdentity ==
    [][/\ GKMerge /\ gkOther.epsilonInv = gk.epsilonInv /\ gkOther.count = 0
              => gk' = gk
       /\ GKMerge /\ gkOther.epsilonInv = gk.epsilonInv /\ gk.count = 0
              => /\ gk'.entries = gkOther.entries
                 /\ gk'.incoming = gkOther.incoming
                 /\ GKReadings(gk') = GKReadings(gkOther)
       /\ SketchMergeWith /\ ~DDSketch_MergeWith_err(sketch, sketchOther)
                          /\ DDSketch_getCount(sketchOther) = 0
              => sketch' = sketch
       /\ SketchMergeWith /\ SketchesAlike /\ DDSketch_getCount(sketch) = 0
              => /\ sketchErr' = ErrNil
                 /\ SketchReadings(sketch') = SketchReadings(sketchOther)]_vars

\* the bins a store is given after its Clear(), one or two of them, at an
\* index below zero and at one above, on different pages
ClearedInputs ==
    LET bins == {[index |-> i, count |-> c] : i \in {-1, 131}, c \in {1, 2}}
    IN {<<b>> : b \in bins} \cup {<<b, c>> : b \in bins, c \in bins}

RECURSIVE Store_AddBins(_, _)
Store_AddBins(s, bins) ==
    IF bins = <<>> \/ s.panicked THEN s
    ELSE Store_AddBins(Store_AddBin(s, Head(bins)), Tail(bins))

\* s is empty, and whatever bins it is given from now on it comes to the
\* logical state a new store comes to
EmptyAndAsNew(s) ==
    /\ ~s.panicked
    /\ Store_IsEmpty(s)
    /\ Store_TotalCount(s) = 0
    /\ Store_MinIndex(s).err
    /\ Store_MaxIndex(s).err
    /\ Store_Bins(s) = <<>>
    /\ \A bins \in ClearedInputs :
           LogicalState(Store_AddBins(s, bins))
               = LogicalState(Store_AddBins(Store_New(s), bins))

\* C26: after Clear() a store is empty (IsEmpty, TotalCount 0, no MinIndex and
\* no MaxIndex, no bins), and every sequence of adds that follows leaves the
\* bins it leaves on a new store, the recycled pages of counts starting at
\* zero
C26_ClearedIsAsNew ==
    [][/\ Clear => EmptyAndAsNew(store')
       /\ OtherClear => EmptyAndAsNew(other')]_vars

\* a store of buffered_paginated.go that held pages of counts was cleared: it
\* is empty and keeps a page to be used again
C26_ClearedWithPages ==
    /\ store.kind = "bp"
    /\ ops >= 2
    /\ Store_IsEmpty(store)
    /\ \E i \in 1..Len(store.pages) :
           ~store.pages[i].nil /\ Len(store.pages[i].c) = 0

\* C27: Quantile(q) called twice on a sketch, with no Add and no Merge in
\* between, returns the same result both times: for a GKArray, whose first
\* call moves the incoming values into the entries, and for a DDSketch, whose
\* first call may sort the buffer of a paginated store. The first call is the
\* step, the second call reads the sketch the first call left.
C27_QuantileTwice ==
    [][/\ GKQuantile =>
              \A q \in Quantiles :
                  GK_Quantile(gk', q[1], q[2]) = GK_Quantile(gk, q[1], q[2])
       /\ GKOtherQuantile =>
              \A q \in Quantiles :
                  GK_Quantile(gkOther', q[1], q[2])
                      = GK_Quantile(gkOther, q[1], q[2])
       /\ SketchGetValueAtQuantile =>
              \A q \in Quantiles :
                  DDSketch_getValueAtQuantile(sketch', q[1], q[2])
                      = DDSketch_getValueAtQuantile(sketch, q[1], q[2])]_vars

\* a GKArray that took no Merge holds two values, both in its entries: its
\* incoming values were moved there by Quantile or by Compress, Add doing it
\* only when count is a multiple of 1/epsilon + 1
C27_IncomingMoved ==
    /\ program = "gk"
    /\ ~gkMerged
    /\ gk.count = 2
    /\ Len(gk.incoming) = 0
    /\ Len(gk.entries) = 2

\* C28: every BufferedPaginatedStore owns its memory pool: the pool that a
\* store and its buffer reference is referenced by no other store, the stores
\* that Copy() produced from it included. store and other are two stores,
\* other produced by store.Copy().
C28_PoolIsOwned ==
    store.kind = "bp2" /\ other.kind = "bp2" =>
        {store.memory, store.buffer.memory}
            \cap {other.memory, other.buffer.memory} = {}

\* C29: DecodeAndMergeWith of a block of contiguous counts with the first
\* index s and the stride d adds the i-th count of the block to the bin
\* s + i * d, and changes no other bin: the bins afterwards are the bin-wise
\* sum of the bins before and the bins of the block.
C29_ContiguousCountsDecoded ==
    [][\A chunk \in ChunkInputs :
           DecodeContiguousCounts(chunk) =>
               /\ ~store'.panicked
               /\ BinwiseSum(Store_Bins(store'), <<>>)
                      = BinwiseSum(Store_Bins(store), ChunkBins(chunk))]_vars

\* C30: the bytes that Encode produces for a BufferedPaginatedStore, decoded
\* into a new store, leave in it the normalized bins of the store encoded,
\* whether its indexes are held in the buffer, in the pages or in both; and
\* Encode leaves the bins of the store as they were
C30_EncodeDecodeRoundTrip ==
    [][EncodeDecode =>
           /\ ~decodeBins(Store_NewOther(store), Store_Encode(store)).err
           /\ Store_Bins(other') = Store_Bins(store)
           /\ Store_Bins(store') = Store_Bins(store)]_vars

\* a store that holds indexes in its buffer and counts in its pages was
\* encoded and decoded: other holds its bins, two of them or more
C30_DecodedBufferAndPages ==
    /\ ~other.panicked
    /\ IF store.kind = "bp" THEN Len(store.buffer) > 0
       ELSE buffer_Len(store.buffer) > 0
    /\ \E po \in 1..Len(store.pages) :
           \E l \in 1..Len(store.pages[po].c) : store.pages[po].c[l] > 0
    /\ Len(Store_Bins(other)) >= 2
    /\ Store_Bins(other) = Store_Bins(store)

\* the bins with every count multiplied by w
ScaledBins(bins, w) ==
    [i \in 1..Len(bins) |-> [index |-> bins[i].index, count |-> bins[i].count * w]]

\* C31: Reweight(w) with w > 0 on a buffered-paginated store returns no error
\* and multiplies the count of every bin by w, an index buffered k times
\* becoming a bin of count k * w; the indexes that have a bin are the same,
\* and TotalCount is multiplied by w
C31_ReweightScalesBins ==
    [][\A w \in WeightSet :
           Reweight(w) /\ w > 0 =>
               /\ ~Store_Reweight_err(w)
               /\ ~store'.panicked
               /\ Store_Bins(store') = ScaledBins(Store_Bins(store), w)
               /\ Store_TotalCount(store') = w * Store_TotalCount(store)
               /\ \A i \in HistoryIndexes : added'[i] > 0 <=> added[i] > 0]_vars

\* two indexes that were buffered once each have been reweighted by 3, and
\* their counts are held in pages
C31_BufferedReweighted ==
    /\ ops = 3
    /\ added[-1] = 3
    /\ added[0] = 3
    /\ Store_Bins(store) = <<[index |-> -1, count |-> 3], [index |-> 0, count |-> 3]>>
    /\ IF store.kind = "bp" THEN Len(store.buffer) = 0
       ELSE buffer_Len(store.buffer) = 0

\* the goroutine is at a send that no receive will meet
Leaked ==
    /\ producer.pc = "sending"
    /\ producer.pending # <<>>
    /\ ~consumer.reading

\* C32: the goroutine started by Bins() returns and closes the channel if and
\* only if the consumer receives every bin: when it has returned the consumer
\* has received all the bins of the store; once the consumer has left with
\* bins still to send, the goroutine stays at its send for ever; and in every
\* other run the goroutine comes to its end
C32_ProducerEndsIffDrained ==
    /\ [](producer.pc = "done" => consumer.received = Store_Bins(store))
    /\ [](producer.closed => producer.pending = <<>>)
    /\ [](Leaked => []Leaked)
    /\ [](producer.pc = "sending" => <>(producer.closed \/ Leaked))

\* the consumer has received a bin and left, the goroutine has another bin to
\* send
C32_ProducerBlocked == Leaked /\ Len(consumer.received) >= 1

\* the positions in the buffer of s of the indexes that fall on page p
BufferedOnPage(s, p) ==
    {j \in 1..Len(s.buffer) : BP_pageIndex(s, s.buffer[j]) = p}

\* page p of s holds counts
PageExists(s, p) ==
    BP_inPages(s, p) /\ Len(s.pages[p - s.minPageIndex + 1].c) > 0

\* the count of line l (0-based) of page p of s, 0 when the page holds none
PageCount(s, p, l) ==
    IF PageExists(s, p) THEN s.pages[p - s.minPageIndex + 1].c[l + 1] ELSE 0

\* C33: in a compaction, the group of the m buffered indexes that fall on one
\* page is moved to the counts of that page if and only if the page exists
\* already or m * sizeof(int) >= pageLen * sizeof(float64); a group that is
\* not moved stays in the buffer whole and gets no page
C33_CompactionDensity ==
    [][Compact =>
           \A p \in {BP_pageIndex(store, store.buffer[j]) : j \in 1..Len(store.buffer)} :
               LET m == Cardinality(BufferedOnPage(store, p))
                   pageLen == 2 ^ store.pageLenLog2
                   moved ==
                       /\ BufferedOnPage(store', p) = {}
                       /\ PageExists(store', p)
                       /\ \A l \in 0..(pageLen - 1) :
                              PageCount(store', p, l)
                                  = PageCount(store, p, l)
                                    + Cardinality({j \in BufferedOnPage(store, p) :
                                          BP_lineIndex(store, store.buffer[j]) = l})
                   kept ==
                       /\ Cardinality(BufferedOnPage(store', p)) = m
                       /\ ~PageExists(store', p)
               IN /\ moved <=> (PageExists(store, p)
                                  \/ m * intSize >= pageLen * float64size)
                  /\ ~moved => kept]_vars

\* after a compaction: a page was made for a group of 32 indexes, and the
\* groups of 31 and of 3 indexes of two other pages are still buffered and
\* have no page
C33_SparseGroupsKept ==
    /\ store.kind = "bp"
    /\ PageExists(store, 1)
    /\ PageCount(store, 1, 8) + PageCount(store, 1, 9) = 32
    /\ Cardinality(BufferedOnPage(store, 0)) = 31
    /\ Cardinality(BufferedOnPage(store, 2)) = 3
    /\ ~PageExists(store, 0)
    /\ ~PageExists(store, 2)
    /\ store.bufferCompactionTriggerLen = Len(store.buffer) + 2 ^ store.pageLenLog2

\* C34, as stated: bufferCompactionTriggerLen is greater right after a
\* compaction than right before it, and no operation lowers it
C34_TriggerGrows ==
    [][/\ Compact =>
              store'.bufferCompactionTriggerLen > store.bufferCompactionTriggerLen
       /\ store.kind = "bp" =>
              store'.bufferCompactionTriggerLen >= store.bufferCompactionTriggerLen]_vars

\* C34, amended: right after a compaction bufferCompactionTriggerLen is the
\* length the buffer is left with plus the length of a page, whatever it was
\* before; it is never below the length of a page
C34_TriggerIsBufferPlusPage ==
    [][/\ Compact =>
              store'.bufferCompactionTriggerLen
                  = Len(store'.buffer) + 2 ^ store.pageLenLog2
       /\ store.kind = "bp" =>
              store'.bufferCompactionTriggerLen >= 2 ^ store.pageLenLog2]_vars

\* a compaction moved 64 buffered indexes to a page and left
\* bufferCompactionTriggerLen below the 2 * pageLen of a new store
C34_TriggerLowered ==
    /\ store.kind = "bp"
    /\ PageCount(store, 0, 0) >= 64
    /\ store.bufferCompactionTriggerLen < 2 * 2 ^ store.pageLenLog2

\* C35: in s.Merge(o) with o not empty, every band weight n, the g of an
\* entry built from o as computed in uint32, is at most
\* int(epsilon * (s.count + o.count - 1))
C35_BandWeightsWithinBound ==
    [][GKMerge /\ gk.epsilonInv = gkOther.epsilonInv
               /\ gk.count > 0 /\ gkOther.count > 0 =>
           LET bands == GK_incomingEntries(GK_compressWithIncoming(gkOther, <<>>))
           IN \A k \in 1..Len(bands) :
                  ULe(bands[k].g, (gk.count + gkOther.count - 1) \div gk.epsilonInv)]_vars

\* C36: after any sequence of Add and Merge on DogSketches built from one
\* Config, a Merge into an empty sketch included, the store of the receiver
\* has the bin limit of the Config and holds at most that many bins, and no
\* Add has failed
C36_BinLimitKept ==
    program = "dog" =>
        /\ ~dog.store.panicked
        /\ dog.store.binLimit = DogBinLimit
        /\ Len(dog.store.bins) <= DogBinLimit

====
